---- MODULE Spec2Model ----
(***************************************************************************)
(* Procure-to-pay workflow: the purchase-request approval state machine,   *)
(* request/item mutation, and asynchronous purchase-order generation.      *)
(*                                                                         *)
(* The database is modelled at READ COMMITTED isolation: `req`, `items`,   *)
(* `approvals` and `orders` are the committed rows.  approve/reject run in *)
(* one transaction that holds the row lock of the request                  *)
(* (select_for_update) from its first query to its commit: `tx` is that    *)
(* open transaction with its uncommitted writes.  Jobs handed to the       *)
(* broker are visible to the workers at once, committed or not.            *)
(***************************************************************************)
EXTENDS Integers, FiniteSets, Sequences, TLC

(* ------------------------------ bounds -------------------------------- *)
MaxCalls == 2
MaxMut == 2
MaxRacingMut == 1
MaxQty == 2
MaxItems == 2

(* ------------------------- program constants -------------------------- *)
LEVEL2_THRESHOLD == 1000
MAX_RETRIES == 3
\* datetime.now().year
current_year == 2026
WORKER_CONCURRENCY == 2

(* ------------------------------ inputs -------------------------------- *)
Users == {"A", "B", "S"}
role == [u \in Users |-> IF u = "A" THEN "approver_lvl1"
                       ELSE IF u = "B" THEN "approver_lvl2" ELSE "staff"]
Levels == {1, 2}
Comments == {"", "x"}
RejectComments == Comments \cup {" "}
Titles == {"t0", "t1"}
ItemIds == 1..MaxItems
Quantities == 1..MaxQty
UnitPrices == {500}
NoItem == [quantity |-> 0, unit_price |-> 0]
ItemValues == [quantity : Quantities, unit_price : UnitPrices]
NoUser == "none"
Suffixes == {100, 101}
NoReq == [status |-> "", amount |-> 0, version |-> 0,
          last_approved_by |-> NoUser, title |-> ""]
NoError == [service |-> "", view |-> ""]
NoCall == [op |-> "", approver |-> NoUser, level |-> 0, comment |-> "",
           ok |-> FALSE, error |-> NoError, reason |-> "", action |-> "none"]
NoTx == [open |-> FALSE, req |-> NoReq, approvals |-> {}, nextId |-> 0,
         call |-> NoCall, transition |-> FALSE]
MutIdle == [pc |-> "idle", kind |-> "", item |-> 0, value |-> NoItem,
            inst |-> NoReq, total |-> 0]
WorkerIdle == [pc |-> "idle", retries |-> 0, amount |-> 0]
Workers == 1..WORKER_CONCURRENCY
NoNumber == [year |-> 0, seq |-> 0, suffix |-> 0]

VARIABLES
    req,        \* the committed PurchaseRequest row
    items,      \* the committed RequestItem rows of the request
    approvals,  \* the committed Approval rows of the request
    nextId,     \* next Approval primary key
    orders,     \* the committed PurchaseOrder rows
    tx,         \* the open approve/reject transaction, or NoTx
    queue,      \* broker: number of order-generation jobs per retry count
    workers,    \* what each worker process is doing
    mut,        \* per thread: the item mutation or request update it runs
    ncalls,     \* approve/reject calls started
    nmut,       \* item/request mutations started
    last,       \* the most recently returned approve/reject call
    repeated,   \* whether that call repeated the one returned before it
    okBy,       \* per level: approvers whose call at that level succeeded
    eligBy,     \* per level: approvers of calls that passed every precondition
    transitions,\* calls that performed PENDING -> APPROVED
    enqueued,   \* order-generation jobs handed to the broker so far
    results,    \* what the finished order-generation runs returned
    receipt,    \* the committed Document row of the receipt
    vqueue,     \* broker: number of reconciliation jobs per retry count
    xqueue,     \* broker: number of document-extraction jobs
    vstat,      \* reconciliation jobs submitted, runs started, what runs returned
    gen,        \* a run of the order-number generator
    check       \* a run of the receipt validation on given data

\* what the approval workflow and order generation leave alone
aux == <<receipt, vqueue, xqueue, vstat, gen, check>>

vars == <<req, items, approvals, nextId, orders, tx, queue, workers, mut,
          ncalls, nmut, last, repeated, okBy, eligBy, transitions, enqueued,
          results, receipt, vqueue, xqueue, vstat, gen, check>>

(* ------------------------------ users --------------------------------- *)
can_approve_level_1(u) == role[u] \in {"approver_lvl1", "approver_lvl2", "admin"}

can_approve_level_2(u) == role[u] \in {"approver_lvl2", "admin"}

(* ------------------------- PurchaseRequest ---------------------------- *)
\* Faulty variant: the threshold itself already needs level 2.
get_required_approval_levels_inclusive(amount) ==
    IF amount >= LEVEL2_THRESHOLD THEN {1, 2} ELSE {1}

get_required_approval_levels(amount) ==
    IF amount > LEVEL2_THRESHOLD THEN {1, 2} ELSE {1}

\* Faulty variant: the approved levels are read from the REJECTED decisions.
get_pending_approval_levels_rejected(amount, aps) ==
    {l \in get_required_approval_levels(amount) :
        ~ \E a \in aps : a.level = l /\ a.decision = "REJECTED"}

get_pending_approval_levels(amount, aps) ==
    {l \in get_required_approval_levels(amount) :
        ~ \E a \in aps : a.level = l /\ a.decision = "APPROVED"}

\* Faulty variant: one APPROVED decision is enough.
is_fully_approved_any_level(amount, aps) ==
    \E a \in aps : a.decision = "APPROVED"

is_fully_approved(amount, aps) == get_pending_approval_levels(amount, aps) = {}

has_rejection(aps) == \E a \in aps : a.decision = "REJECTED"

\* Faulty variant: every request counts as approved.
is_approved_any(r) == TRUE

is_approved(r) == r.status = "APPROVED"

is_valid_status_transition(old, new) ==
    \/ old = new
    \/ old = "PENDING" /\ new \in {"APPROVED", "REJECTED"}

line_total(it) == it.quantity * it.unit_price

RECURSIVE SumItems(_, _)
SumItems(its, ids) ==
    IF ids = {} THEN 0
    ELSE LET i == CHOOSE x \in ids : TRUE
         IN line_total(its[i]) + SumItems(its, ids \ {i})

calculated_total(its) == SumItems(its, ItemIds)

\* PurchaseRequest.full_clean: field validators, then clean() against the
\* row currently stored (dbreq).
PurchaseRequest_full_clean(inst, dbreq) ==
    /\ inst.title # ""
    /\ inst.amount > 0
    /\ is_valid_status_transition(dbreq.status, inst.status)

\* PurchaseRequest.save of an existing row: validate, bump the version of the
\* instance, write every field of the instance.
PurchaseRequest_save(inst, dbreq) ==
    IF PurchaseRequest_full_clean(inst, dbreq)
    THEN LET w == [inst EXCEPT !.version = inst.version + 1]
         IN [ok |-> TRUE, inst |-> w, db |-> w]
    ELSE [ok |-> FALSE, inst |-> inst, db |-> dbreq]

(* ----------------------------- Approval ------------------------------- *)
approver_can_approve_level(u, level) ==
    IF level = 1 THEN can_approve_level_1(u)
    ELSE IF level = 2 THEN can_approve_level_2(u) ELSE FALSE

\* Faulty variant: a request counts as pending whatever its status.
is_pending_any(r) == r.status \in {"PENDING", "APPROVED", "REJECTED"}

\* PurchaseRequest.is_pending
is_pending(r) == r.status = "PENDING"

\* Approval.full_clean: clean() plus the (request, level) unique constraint,
\* against the request instance the approval holds and the stored approvals.
Approval_full_clean(ap, inst, aps) ==
    /\ approver_can_approve_level(ap.approver, ap.level)
    /\ is_pending(inst)
    /\ ap.level \in get_required_approval_levels(inst.amount)
    /\ (ap.decision = "APPROVED" => ~ has_rejection(aps))
    /\ ~ \E b \in aps : b.level = ap.level /\ b.id # ap.id

\* Approval._update_request_status, run by Approval.save after the row is
\* written: inst is the request instance the approval holds, dbreq the stored
\* request row, aps the stored approvals (the saved one included).
\* Exceptions are swallowed.
update_request_status(ap, inst, dbreq, aps) ==
    IF ap.decision = "REJECTED" \/ has_rejection(aps)
    THEN LET s == PurchaseRequest_save([inst EXCEPT !.status = "REJECTED"], dbreq)
         IN [inst |-> s.inst, db |-> s.db, enq |-> 0]
    ELSE IF ap.decision = "APPROVED" /\ is_fully_approved(inst.amount, aps)
    THEN LET s == PurchaseRequest_save(
                     [inst EXCEPT !.status = "APPROVED",
                                  !.last_approved_by = ap.approver], dbreq)
         IN [inst |-> s.inst, db |-> s.db, enq |-> IF s.ok THEN 1 ELSE 0]
    ELSE [inst |-> inst, db |-> dbreq, enq |-> 0]

(* -------------------------- ApprovalService --------------------------- *)
\* Faulty variant: a decision by another approver is answered like any other
\* refusal.
ErrorOf_bad_request(reason) ==
    IF reason = "permission"
    THEN [service |-> "PermissionDenied", view |-> "PermissionDenied"]
    ELSE [service |-> "ValidationError", view |-> "BadRequest"]

\* How a failure is reported.  ApprovalService raises PermissionDenied or
\* ValidationError; the approve/reject views, which repeat the service's code,
\* answer a decision by another approver with 409 CONFLICT and every other
\* refusal with 400.
ErrorOf(reason) ==
    IF reason = "permission"
    THEN [service |-> "PermissionDenied", view |-> "PermissionDenied"]
    ELSE IF reason = "other_approver"
    THEN [service |-> "ValidationError", view |-> "Conflict"]
    ELSE [service |-> "ValidationError", view |-> "BadRequest"]

\* str.strip on the comments of the model: " " is the whitespace-only one.
strip(c) == IF c = " " THEN "" ELSE c

\* Faulty variant: only the empty comment counts as missing.
comment_missing_unstripped(c) == c = ""

\* "not comment or not comment.strip()"
comment_missing(c) == c = "" \/ strip(c) = ""

\* Faulty variant: either capability authorizes any level.
validate_approval_permission_any(u, level) ==
    can_approve_level_1(u) \/ can_approve_level_2(u)

validate_approval_permission(u, level) ==
    ~ \/ level = 1 /\ ~ can_approve_level_1(u)
      \/ level = 2 /\ ~ can_approve_level_2(u)

Failed(reason, r, aps, nid, enq) ==
    [ok |-> FALSE, reason |-> reason, req |-> r, approvals |-> aps,
     nextId |-> nid, enq |-> enq, action |-> "none"]

\* Faulty variant: any approver may overwrite a stored decision.
same_approver_any(ap0, approver) == TRUE

\* "approval.approver != approver": only the approver who decided a level may
\* decide it again.
same_approver(ap0, approver) == ap0.approver = approver

\* Faulty variant: the comment written is not the caller's.
updated_row_fixed_comment(ap0, decision, comment) ==
    [ap0 EXCEPT !.decision = decision, !.comment = "x"]

\* The "if not created" branch: the stored decision with decision and comment
\* overwritten.
updated_row(ap0, decision, comment) ==
    [ap0 EXCEPT !.decision = decision, !.comment = comment]

\* Approval.objects.get_or_create(request, level, defaults) followed by the
\* caller's "if not created" branch and its final status write.  r is the
\* request instance read under the lock, aps the stored approvals.
DecideBody(decision, approver, level, comment, r, aps, nid) ==
    LET existing == {a \in aps : a.level = level}
    IN
    IF Cardinality(existing) > 1 THEN Failed("multiple", r, aps, nid, 0)
    ELSE IF existing = {}
    THEN \* created: Approval.save on a new row holding r itself
         LET ap == [id |-> nid, level |-> level, approver |-> approver,
                    decision |-> decision, comment |-> comment]
         IN IF ~ Approval_full_clean(ap, r, aps)
            THEN Failed("invalid", r, aps, nid, 0)
            ELSE LET aps1 == aps \cup {ap}
                     u == update_request_status(ap, r, r, aps1)
                 IN [ok |-> TRUE, reason |-> "", action |-> "created",
                     inst |-> u.inst, req |-> u.db, approvals |-> aps1,
                     nextId |-> nid + 1, enq |-> u.enq]
    ELSE LET ap0 == CHOOSE a \in existing : TRUE
         IN IF ~ same_approver(ap0, approver)
            THEN Failed("other_approver", r, aps, nid, 0)
            ELSE \* updated: Approval.save on the stored row, which loads its
                 \* own instance of the request
                 LET ap1 == updated_row(ap0, decision, comment)
                 IN IF ~ Approval_full_clean(ap1, r, aps)
                    THEN Failed("invalid", r, aps, nid, 0)
                    ELSE LET aps1 == (aps \ {ap0}) \cup {ap1}
                             u == update_request_status(ap1, r, r, aps1)
                         IN [ok |-> TRUE, reason |-> "", action |-> "updated",
                             inst |-> r, req |-> u.db, approvals |-> aps1,
                             nextId |-> nid, enq |-> u.enq]

\* ApprovalService.approve_request / the approve view, from the lock on.
approve_request(approver, level, comment, r, aps, nid) ==
    IF ~ is_pending(r) THEN Failed("not_pending", r, aps, nid, 0)
    ELSE IF level \notin get_required_approval_levels(r.amount)
    THEN Failed("level_not_required", r, aps, nid, 0)
    ELSE IF has_rejection(aps) THEN Failed("rejected", r, aps, nid, 0)
    ELSE
    LET d == DecideBody("APPROVED", approver, level, comment, r, aps, nid)
    IN IF ~ d.ok THEN d
       ELSE IF is_fully_approved(d.inst.amount, d.approvals)
       THEN LET s == PurchaseRequest_save(
                        [d.inst EXCEPT !.status = "APPROVED",
                                       !.last_approved_by = approver], d.req)
            IN IF s.ok
               THEN [d EXCEPT !.req = s.db, !.inst = s.inst, !.enq = d.enq + 1]
               ELSE Failed("invalid", r, aps, nid, d.enq)
       ELSE d

\* ApprovalService.reject_request / the reject view, from the lock on.
reject_request(approver, level, comment, r, aps, nid) ==
    IF ~ is_pending(r) THEN Failed("not_pending", r, aps, nid, 0)
    ELSE IF level \notin get_required_approval_levels(r.amount)
    THEN Failed("level_not_required", r, aps, nid, 0)
    ELSE
    LET d == DecideBody("REJECTED", approver, level, comment, r, aps, nid)
    IN IF ~ d.ok THEN d
       ELSE LET s == PurchaseRequest_save(
                        [d.inst EXCEPT !.status = "REJECTED"], d.req)
            IN IF s.ok
               THEN [d EXCEPT !.req = s.db, !.inst = s.inst]
               ELSE Failed("invalid", r, aps, nid, d.enq)

(* ------------------------------ strings ------------------------------- *)
\* Strings that the code takes apart (vendor names, item descriptions,
\* e-mail addresses, phone numbers) are sequences of characters.
str_lower(s) ==
    [i \in 1..Len(s) |-> IF s[i] = "A" THEN "a"
                         ELSE IF s[i] = "B" THEN "b" ELSE s[i]]

RECURSIVE lstrip(_)
lstrip(s) == IF s # <<>> /\ Head(s) = " " THEN lstrip(Tail(s)) ELSE s

RECURSIVE rstrip(_)
rstrip(s) ==
    IF s # <<>> /\ s[Len(s)] = " " THEN rstrip(SubSeq(s, 1, Len(s) - 1)) ELSE s

str_strip(s) == rstrip(lstrip(s))

\* "sub in s"
str_in(sub, s) ==
    \E i \in 0..(Len(s) - Len(sub)) : SubSeq(s, i + 1, i + Len(sub)) = sub

\* set(s.split()): the maximal runs without a blank
str_split(s) ==
    {SubSeq(s, sp[1], sp[2]) :
        sp \in {ij \in (1..Len(s)) \X (1..Len(s)) :
                  /\ ij[1] <= ij[2]
                  /\ \A k \in ij[1]..ij[2] : s[k] # " "
                  /\ (ij[1] = 1 \/ s[ij[1] - 1] = " ")
                  /\ (ij[2] = Len(s) \/ s[ij[2] + 1] = " ")}}

\* The element of a one-element set: The({e(x) : x \in {v}}) is e(v), with
\* the intermediate result v computed once, as an assignment does.
The(S) == CHOOSE x \in S : TRUE

Min(a, b) == IF a <= b THEN a ELSE b
Max(a, b) == IF a >= b THEN a ELSE b
Abs(a) == IF a >= 0 THEN a ELSE 0 - a

(* ------------------------- receipt validation ------------------------- *)
\* Scores are fractions of ONE: ONE is the score 1.0.  Every score the code
\* computes on the inputs of this model is a whole number of these units.
ONE == 24 * 10000

Pts(n, d) == (ONE * n) \div d

\* _calculate_string_similarity, from the two normalized strings on
similarity_of(a, b) ==
    LET words1 == str_split(a)
        words2 == str_split(b)
        inter == words1 \cap words2
        union == words1 \cup words2
        max_len == Max(Len(a), Len(b))
        matches == Cardinality({i \in 1..Len(a) : i <= Len(b) /\ a[i] = b[i]})
    IN IF a = b THEN ONE
       ELSE IF str_in(a, b) \/ str_in(b, a) THEN Pts(8, 10)
       ELSE IF words1 # {} /\ words2 # {} /\ inter # {}
       THEN Min(Pts(9, 10),
                Pts(4, 10) + Pts(Cardinality(inter), 2 * Cardinality(union)))
       ELSE IF max_len = 0 THEN ONE
       ELSE Min(Pts(7, 10), Pts(matches, max_len))

\* _calculate_string_similarity
calculate_string_similarity(str1, str2) ==
    IF str1 = <<>> \/ str2 = <<>> THEN 0
    ELSE The({similarity_of(a, b) : a \in {str_strip(str_lower(str1))},
                                   b \in {str_strip(str_lower(str2))}})

\* re.sub(r'\D', '', phone), then the leading 1 of an 11-digit number dropped
phone_digits(p) ==
    LET d == SelectSeq(p, LAMBDA c : c \in {"0", "1", "2", "5"})
    IN IF Len(d) = 11 /\ d[1] = "1" THEN Tail(d) ELSE d

\* _compare_phone_numbers
compare_phone_numbers(phone1, phone2) ==
    LET digits1 == phone_digits(phone1)
        digits2 == phone_digits(phone2)
    IN IF digits1 = <<>> \/ digits2 = <<>> THEN 0
       ELSE IF digits1 = digits2 THEN ONE
       ELSE IF str_in(digits1, digits2) \/ str_in(digits2, digits1)
       THEN Pts(7, 10)
       ELSE 0

\* The contact term of the vendor score: "contact_score * weights['contact']"
\* takes the running sum contact_score, not result['contact_match'].
vendor_contact_term(contact_score, contact_match) == contact_score

\* _compare_vendors_detailed (the definition in force, the second of the
\* module), from the name score on.  A vendor is [name, phone, email,
\* address], <<>> when absent.
vendor_scores(receipt_vendor, po_vendor, receipt_name, po_name, name_score) ==
    LET has_phone == receipt_vendor.phone # <<>> /\ po_vendor.phone # <<>>
        has_email == receipt_vendor.email # <<>> /\ po_vendor.email # <<>>
        phone_score == IF has_phone
                       THEN compare_phone_numbers(receipt_vendor.phone,
                                                  po_vendor.phone)
                       ELSE 0
        email_score == IF has_email
                       THEN calculate_string_similarity(
                                str_lower(receipt_vendor.email),
                                str_lower(po_vendor.email))
                       ELSE 0
        contact_score == phone_score + email_score
        contact_matches == (IF has_phone THEN 1 ELSE 0)
                           + (IF has_email THEN 1 ELSE 0)
        contact_match == IF contact_matches > 0
                         THEN contact_score \div contact_matches
                         ELSE Pts(8, 10)
        address_score ==
            IF receipt_vendor.address # <<>> /\ po_vendor.address # <<>>
            THEN calculate_string_similarity(str_lower(receipt_vendor.address),
                                             str_lower(po_vendor.address))
            ELSE Pts(8, 10)
    IN IF receipt_name = <<>> \/ po_name = <<>>
       THEN [score |-> 0, name_match |-> 0, contact_match |-> 0,
             address_match |-> 0]
       ELSE [score |-> (name_score * 7
                        + vendor_contact_term(contact_score, contact_match) * 2
                        + address_score * 1) \div 10,
             name_match |-> name_score, contact_match |-> contact_match,
             address_match |-> address_score]

\* _compare_vendors_detailed (the definition in force)
compare_vendors_detailed(receipt_vendor, po_vendor) ==
    The({The({vendor_scores(receipt_vendor, po_vendor, receipt_name, po_name,
                            name_score) :
                 name_score \in
                     {calculate_string_similarity(receipt_name, po_name)}}) :
            receipt_name \in {str_strip(str_lower(receipt_vendor.name))},
            po_name \in {str_strip(str_lower(po_vendor.name))}})

\* Faulty variant: the 10% band has no upper limit.
total_band_unlimited(difference, larger) ==
    IF difference = 0 THEN ONE
    ELSE IF difference * 100 <= 1 * larger THEN Pts(95, 100)
    ELSE IF difference * 100 <= 3 * larger THEN Pts(85, 100)
    ELSE IF difference * 100 <= 5 * larger THEN Pts(75, 100)
    ELSE Pts(60, 100)

\* The bands of _compare_totals_detailed (the definition in force):
\* percentage_diff = difference / larger * 100 against 1, 3, 5 and 10.
total_band(difference, larger) ==
    IF difference = 0 THEN ONE
    ELSE IF difference * 100 <= 1 * larger THEN Pts(95, 100)
    ELSE IF difference * 100 <= 3 * larger THEN Pts(85, 100)
    ELSE IF difference * 100 <= 5 * larger THEN Pts(75, 100)
    ELSE IF difference * 100 <= 10 * larger THEN Pts(60, 100)
    ELSE 0

\* _compare_totals_detailed (the definition in force).  A total is a whole
\* amount, 0 when the key is absent: float(totals.get('total', 0)).
compare_totals_detailed(receipt_total, po_total) ==
    IF receipt_total = 0 \/ po_total = 0
    THEN [score |-> 0, difference |-> 0]
    ELSE LET difference == Abs(receipt_total - po_total)
         IN [score |-> total_band(difference, Max(receipt_total, po_total)),
             difference |-> difference]

\* ReceiptValidator._compare_totals, used by the synchronous validation of
\* the receipt upload view.  NoTotal is None.
NoTotal == 0 - 1

ReceiptValidator_compare_totals(receipt_total, po_total) ==
    IF receipt_total = NoTotal \/ po_total = NoTotal THEN 0
    ELSE LET difference == Abs(receipt_total - po_total)
         IN IF po_total = 0 THEN 0
            ELSE IF difference * 100 <= 1 * po_total THEN ONE
            ELSE IF difference * 100 <= 5 * po_total THEN Pts(9, 10)
            ELSE IF difference * 100 <= 10 * po_total THEN Pts(7, 10)
            ELSE 0

\* _normalize_items_for_comparison keeping the items without a description
normalize_items_keep_all(its) ==
    [i \in 1..Len(its) |->
        [description |-> str_strip(str_lower(
                             IF its[i].description # <<>>
                             THEN its[i].description ELSE its[i].name)),
         quantity |-> its[i].quantity, unit_price |-> its[i].unit_price]]

\* _normalize_items_for_comparison.  An item is [description, name, quantity,
\* unit_price]; the description falls back to the name, and items left
\* without one are dropped.
normalize_items_for_comparison(its) ==
    LET norm(it) ==
            [description |-> str_strip(str_lower(
                                 IF it.description # <<>> THEN it.description
                                 ELSE it.name)),
             quantity |-> it.quantity, unit_price |-> it.unit_price]
        all == [i \in 1..Len(its) |-> norm(its[i])]
    IN SelectSeq(all, LAMBDA it : it.description # <<>>)

InSeq(x, sq) == \E i \in 1..Len(sq) : sq[i] = x

\* list.remove(x): without the first element equal to x
RECURSIVE list_remove(_, _)
list_remove(sq, x) ==
    IF sq = <<>> THEN <<>>
    ELSE IF Head(sq) = x THEN Tail(sq)
    ELSE <<Head(sq)>> \o list_remove(Tail(sq), x)

\* The matching loop of _compare_items_detailed: each receipt item in turn
\* takes, among the order items not yet taken, the first of those most
\* similar to it, if that similarity reaches 0.6.
RECURSIVE match_items(_, _, _, _)
match_items(rs, po_normalized, unmatched_po, matches) ==
    IF rs = <<>> THEN [matches |-> matches, unmatched_po |-> unmatched_po]
    ELSE
    LET r_item == Head(rs)
        sim(j) == calculate_string_similarity(r_item.description,
                                              po_normalized[j].description)
        cand == {j \in 1..Len(po_normalized) :
                    /\ InSeq(po_normalized[j], unmatched_po)
                    /\ sim(j) >= Pts(6, 10)}
    IN IF cand = {}
       THEN match_items(Tail(rs), po_normalized, unmatched_po, matches)
       ELSE LET best == CHOOSE j \in cand : \A k \in cand :
                            \/ sim(k) < sim(j)
                            \/ sim(k) = sim(j) /\ k >= j
            IN The({match_items(Tail(rs), po_normalized,
                                list_remove(unmatched_po, po_item),
                                Append(matches, [receipt_item |-> r_item,
                                                 po_item |-> po_item,
                                                 similarity |-> sim(best)])) :
                       po_item \in {po_normalized[best]}})

\* unmatched_receipt: the normalized receipt items after
\* "unmatched_receipt.remove(r_item)" for every match
RECURSIVE remove_matched(_, _)
remove_matched(unmatched_receipt, matches) ==
    IF matches = <<>> THEN unmatched_receipt
    ELSE remove_matched(list_remove(unmatched_receipt,
                                    Head(matches).receipt_item),
                        Tail(matches))

descriptions(its) == [i \in 1..Len(its) |-> its[i].description]

\* _compare_items_detailed (the definition in force), from the matches on
items_score(receipt_items, po_items, m) ==
    LET total_items == Max(Len(receipt_items), Len(po_items))
        quantity_discrepancies ==
            {i \in 1..Len(m.matches) :
                LET r == m.matches[i].receipt_item.quantity
                    q == m.matches[i].po_item.quantity
                IN r # q /\ q > 0 /\ Abs(r - q) * 100 > 5 * q}
        price_discrepancies ==
            {i \in 1..Len(m.matches) :
                LET r == m.matches[i].receipt_item.unit_price
                    q == m.matches[i].po_item.unit_price
                IN r # q /\ q > 0 /\ Abs(r - q) * 100 > 2 * q}
        qty_penalty == Min(Pts(2, 10),
                           Cardinality(quantity_discrepancies) * Pts(5, 100))
        price_penalty == Min(Pts(2, 10),
                             Cardinality(price_discrepancies) * Pts(5, 100))
    IN [score |-> Max(0, Pts(Len(m.matches), total_items)
                         - qty_penalty - price_penalty),
        matched_count |-> Len(m.matches), total_items |-> total_items,
        missing |-> Len(m.unmatched_po), matches |-> m.matches,
        missing_items |-> descriptions(m.unmatched_po),
        extra_items |-> descriptions(m.unmatched_receipt)]

\* The result _compare_items_detailed returns before any matching
NoItems(score) ==
    [score |-> score, matched_count |-> 0, total_items |-> 0, missing |-> 0,
     matches |-> <<>>, missing_items |-> <<>>, extra_items |-> <<>>]

\* _compare_items_detailed (the definition in force)
compare_items_detailed(receipt_items, po_items) ==
    IF receipt_items = <<>> /\ po_items = <<>>
    THEN NoItems(ONE)
    ELSE IF receipt_items = <<>> \/ po_items = <<>>
    THEN NoItems(0)
    ELSE
    The({items_score(receipt_items, po_items, m) :
            m \in {The({The({[matches |-> mm.matches,
                               unmatched_po |-> mm.unmatched_po,
                               unmatched_receipt |->
                                   remove_matched(receipt_normalized,
                                                  mm.matches)] :
                                mm \in {match_items(receipt_normalized,
                                                    po_normalized,
                                                    po_normalized, <<>>)}}) :
                           receipt_normalized \in
                               {normalize_items_for_comparison(receipt_items)},
                           po_normalized \in
                               {normalize_items_for_comparison(po_items)}})}})

\* _compare_dates scoring an absent date 0.0
compare_dates_absent_zero(date) ==
    IF ~ date.given THEN 0
    ELSE IF 0 <= date.days_ago /\ date.days_ago <= 90 THEN ONE
    ELSE IF date.days_ago <= 180 THEN Pts(7, 10)
    ELSE Pts(3, 10)

\* _compare_dates (the definition in force).  A transaction date is
\* [given, days_ago]: whether the receipt carries one, and how many days
\* before now it lies.
compare_dates(date) ==
    IF ~ date.given THEN Pts(5, 10)
    ELSE IF 0 <= date.days_ago /\ date.days_ago <= 90 THEN ONE
    ELSE IF date.days_ago <= 180 THEN Pts(7, 10)
    ELSE Pts(3, 10)

\* _determine_confidence_level with MEDIUM decided by the overall score alone
determine_confidence_level_by_score(overall_score, discrepancy_count, flags) ==
    IF flags \cap {"VENDOR_MAJOR_MISMATCH", "AMOUNT_MAJOR_DISCREPANCY",
                   "POTENTIAL_VENDOR_FRAUD"} # {}
    THEN "LOW"
    ELSE IF overall_score >= Pts(85, 100) /\ discrepancy_count <= 1 THEN "HIGH"
    ELSE IF overall_score >= Pts(7, 10) THEN "MEDIUM"
    ELSE "LOW"

\* _determine_confidence_level (the definition in force)
determine_confidence_level(overall_score, discrepancy_count, flags) ==
    IF flags \cap {"VENDOR_MAJOR_MISMATCH", "AMOUNT_MAJOR_DISCREPANCY",
                   "POTENTIAL_VENDOR_FRAUD"} # {}
    THEN "LOW"
    ELSE IF overall_score >= Pts(85, 100) /\ discrepancy_count <= 1 THEN "HIGH"
    ELSE IF overall_score >= Pts(7, 10) /\ discrepancy_count <= 2 THEN "MEDIUM"
    ELSE "LOW"

\* _check_fraud_indicators flagging the amount only above three times the
\* order total
check_fraud_indicators_threefold(receipt_data, po_data, vendor_match) ==
    LET receipt_total == receipt_data.total
        po_total == po_data.total
    IN (IF receipt_total > 3 * po_total
        THEN {"SUSPICIOUS_AMOUNT_INCREASE"} ELSE {})
       \cup (IF vendor_match < Pts(3, 10)
             THEN {"POTENTIAL_VENDOR_FRAUD"} ELSE {})
       \cup (IF /\ receipt_total > 0 /\ receipt_total % 100 = 0
                /\ receipt_total >= 1000
                /\ Abs(receipt_total - po_total) * 10
                       > Max(receipt_total, po_total)
             THEN {"SUSPICIOUS_ROUND_AMOUNT"} ELSE {})
       \cup (IF receipt_data.vendor.name = <<>>
             THEN {"MISSING_VENDOR_INFO"} ELSE {})
       \cup (IF ~ receipt_data.date.given
             THEN {"MISSING_TRANSACTION_DATE"} ELSE {})

\* _check_fraud_indicators (the definition in force)
check_fraud_indicators(receipt_data, po_data, vendor_match) ==
    LET receipt_total == receipt_data.total
        po_total == po_data.total
    IN (IF 2 * receipt_total > 3 * po_total
        THEN {"SUSPICIOUS_AMOUNT_INCREASE"} ELSE {})
       \cup (IF vendor_match < Pts(3, 10)
             THEN {"POTENTIAL_VENDOR_FRAUD"} ELSE {})
       \cup (IF /\ receipt_total > 0 /\ receipt_total % 100 = 0
                /\ receipt_total >= 1000
                /\ Abs(receipt_total - po_total) * 10
                       > Max(receipt_total, po_total)
             THEN {"SUSPICIOUS_ROUND_AMOUNT"} ELSE {})
       \cup (IF receipt_data.vendor.name = <<>>
             THEN {"MISSING_VENDOR_INFO"} ELSE {})
       \cup (IF ~ receipt_data.date.given
             THEN {"MISSING_TRANSACTION_DATE"} ELSE {})

\* The weighted sum of _perform_receipt_validation:
\* vendor 0.25, total 0.40, items 0.30, date 0.05.
weighted_overall(vendor, total, its, date) ==
    (vendor * 25 + total * 40 + its * 30 + date * 5) \div 100

\* _perform_receipt_validation, from the four comparisons on
validation_result_of(receipt_data, po_data, vendor, total, its, date_match) ==
    LET discrepancies ==
            (IF vendor.score < Pts(8, 10) THEN {"vendor_mismatch"} ELSE {})
            \cup (IF total.score < Pts(9, 10) THEN {"total_mismatch"} ELSE {})
            \cup (IF its.score < Pts(7, 10) THEN {"items_mismatch"} ELSE {})
            \cup (IF date_match < Pts(5, 10) THEN {"date_mismatch"} ELSE {})
        flags1 ==
            (IF vendor.score < Pts(5, 10)
             THEN {"VENDOR_MAJOR_MISMATCH"} ELSE {})
            \cup (IF total.score < Pts(7, 10)
                  THEN {"AMOUNT_MAJOR_DISCREPANCY"} ELSE {})
            \cup (IF its.score < Pts(4, 10)
                  THEN {"ITEMS_MAJOR_MISMATCH"} ELSE {})
        overall_score == weighted_overall(vendor.score, total.score,
                                          its.score, date_match)
        confidence == determine_confidence_level(
                          overall_score, Cardinality(discrepancies), flags1)
        flags2 ==
            flags1
            \cup (IF overall_score < Pts(6, 10)
                  THEN {"REQUIRES_MANUAL_REVIEW"} ELSE {})
            \cup (IF Cardinality(discrepancies) >= 3
                  THEN {"MULTIPLE_DISCREPANCIES"} ELSE {})
        fraud_indicators ==
            check_fraud_indicators(receipt_data, po_data, vendor.score)
    IN [vendor_match |-> vendor.score, total_match |-> total.score,
        items_match |-> its.score, date_match |-> date_match,
        overall_score |-> overall_score, discrepancies |-> discrepancies,
        items |-> its,
        flags |-> flags2 \cup fraud_indicators,
        confidence_level |-> IF fraud_indicators # {} THEN "LOW"
                             ELSE confidence]

\* _perform_receipt_validation.  receipt_data and po_data are
\* [vendor, items, total, date], as _extract_receipt_data and
\* _extract_po_data build them.
perform_receipt_validation(receipt_data, po_data) ==
    The({validation_result_of(receipt_data, po_data, vendor, total, its,
                              date_match) :
            vendor \in {compare_vendors_detailed(receipt_data.vendor,
                                                 po_data.vendor)},
            total \in {compare_totals_detailed(receipt_data.total,
                                               po_data.total)},
            its \in {compare_items_detailed(receipt_data.items, po_data.items)},
            date_match \in {compare_dates(receipt_data.date)}})

\* "overall_score < RECEIPT_VALIDATION_THRESHOLD", 0.8 unless configured
needs_review(validation_result) ==
    validation_result.overall_score < Pts(8, 10)

\* Inputs of the validation: vendor names, item lines, totals, dates.
MaxLines == 2
ReceiptNames ==
    {<<>>, <<"a", " ", "b">>, <<"A", " ", "b", " ">>, <<"b", " ", "a">>,
     <<"b", "b">>}
OrderNames == {<<"a", " ", "b">>, <<>>}
Vendor(n) == [name |-> n, phone |-> <<>>, email |-> <<>>, address |-> <<>>]
\* a vendor given with phone, email and address
ContactVendor ==
    [name |-> <<"a", " ", "b">>, phone |-> <<"5">>, email |-> <<"a">>,
     address |-> <<"b">>]
ReceiptLines ==
    {l \in [description : {<<"x">>, <<"y">>, <<>>}, name : {<<>>},
            quantity : {1, 2}, unit_price : {500}] :
        /\ l.description = <<"y">> => l.quantity = 2
        /\ l.description = <<>> => l.quantity = 1}
OrderLine(n, q) ==
    [description |-> <<>>, name |-> n, quantity |-> q, unit_price |-> 500]
SeqsUpTo(S, n) == UNION {[1..k -> S] : k \in 0..n}
ReceiptItemLists == SeqsUpTo(ReceiptLines, MaxLines)
OrderItemLists ==
    {<<>>, <<OrderLine(<<"x">>, 1)>>,
     <<OrderLine(<<"x">>, 1), OrderLine(<<"y">>, 2)>>}
ReceiptTotals == {0, 1000, 995, 990, 980, 950, 900, 800, 3000}
OrderTotals == {0, 1000}
NoDate == [given |-> FALSE, days_ago |-> 0]
Dates == {NoDate, [given |-> TRUE, days_ago |-> 10],
          [given |-> TRUE, days_ago |-> 200]}
ReceiptData ==
    [vendor : {Vendor(n) : n \in ReceiptNames} \cup {ContactVendor},
     items : ReceiptItemLists,
     total : ReceiptTotals, date : Dates]
OrderData ==
    [vendor : {Vendor(n) : n \in OrderNames} \cup {ContactVendor},
     items : OrderItemLists,
     total : OrderTotals, date : {NoDate}]
NoResult ==
    [vendor_match |-> 0, total_match |-> 0, items_match |-> 0,
     date_match |-> 0, overall_score |-> 0, discrepancies |-> {},
     items |-> NoItems(0), flags |-> {}, confidence_level |-> ""]
NoData == [vendor |-> Vendor(<<>>), items |-> <<>>, total |-> 0, date |-> NoDate]
NoCheck ==
    [pc |-> "idle", receipt_data |-> NoData, po_data |-> NoData,
     result |-> NoResult, needs_review |-> FALSE, validator_total |-> NoTotal]
\* No receipt document; an uploaded one (processing_status defaults to
\* PENDING); one that extract_document_metadata has processed.
\* metadata['validation'] of a receipt document: what a reconciliation run
\* stored there (who ran, the error it met, the overall score, whether manual
\* review is needed), or nothing
Validation(via, error, score, review) ==
    [via |-> via, error |-> error, score |-> score, needs_review |-> review]
NoValidation == Validation("", "", 0, FALSE)
NoReceipt ==
    [processing_status |-> "", data |-> NoData, validation |-> NoValidation]
ExtractedData ==
    {d \in ReceiptData : /\ d.vendor.name \in {<<"a", " ", "b">>, <<"b", "b">>}
                          /\ d.items = <<>> /\ d.total = 1000 /\ d.date = NoDate}
UploadedReceipt ==
    [processing_status |-> "PENDING", data |-> NoData,
     validation |-> NoValidation]
ProcessedReceipts ==
    [processing_status : {"COMPLETED"}, data : ExtractedData,
     validation : {NoValidation}]
\* reconciliation jobs submitted
MaxJobs == 1
\* reruns: synchronous validations of a stored receipt; notified: review
\* notifications queued; latest: what the most recent finished
\* reconciliation produced
NoStat ==
    [submitted |-> 0, runs |-> 0, exhausted |-> 0, generations |-> 0,
     reruns |-> 0, notified |-> 0, latest |-> NoValidation]
NoGen == [pc |-> "idle", next_seq |-> 0, suffix |-> 0, retry_count |-> 0,
          drawn |-> {}, out |-> NoNumber]

\* Orders in store before the generator runs: numbers of the format
\* PO-YYYYNNNNNNXXX, of this year and of the year before, each order belonging
\* to a request of its own other than request 1.
MaxStored == 3
StoredSeqs == {1, 12, 100001, 999999}
StoredSuffixes == Suffixes \cup {900}
StoredNumbers ==
    [year : {current_year}, seq : StoredSeqs, suffix : StoredSuffixes]
    \cup {[year |-> current_year - 1, seq |-> 7, suffix |-> 100]}
StoredOrder(n) ==
    [po_number |-> n, request |-> 2 + n.seq * 1000 + n.suffix,
     vendor |-> "Unknown Vendor", total |-> 500, status |-> "DRAFT"]
StoredOrderSets ==
    {{StoredOrder(n) : n \in S} :
        S \in {S \in SUBSET StoredNumbers : Cardinality(S) <= MaxStored}}

(* ------------------------------- Init --------------------------------- *)
InitialItems ==
    {f \in [ItemIds -> ItemValues \cup {NoItem}] : \E i \in ItemIds : f[i] # NoItem}

\* A request as PurchaseRequestCreateSerializer.create leaves it: at least one
\* item, amount = the items' total, PENDING, saved once after its insert.
\* ords are the purchase orders in store.
InitWorkflow(its, ords) ==
    /\ items = its
    /\ req = [status |-> "PENDING", amount |-> calculated_total(its),
              version |-> 1, last_approved_by |-> NoUser, title |-> "t0"]
    /\ approvals = {}
    /\ nextId = 1
    /\ orders = ords
    /\ tx = NoTx
    /\ queue = [k \in 0..MAX_RETRIES |-> 0]
    /\ workers = [w \in Workers |-> WorkerIdle]
    /\ mut = [t \in 1..MaxMut |-> MutIdle]
    /\ ncalls = 0
    /\ nmut = 0
    /\ last = NoCall
    /\ repeated = FALSE
    /\ okBy = [l \in Levels |-> {}]
    /\ eligBy = [l \in Levels |-> {}]
    /\ transitions = 0
    /\ enqueued = 0
    /\ results = {}

\* No receipt uploaded, no reconciliation job, no generator or validation run.
InitAux ==
    /\ receipt = NoReceipt
    /\ vqueue = [k \in 0..MAX_RETRIES |-> 0]
    /\ xqueue = 0
    /\ vstat = NoStat
    /\ gen = NoGen
    /\ check = NoCheck

Init == \E its \in InitialItems : InitWorkflow(its, {}) /\ InitAux

(* ------------------------- approve and reject ------------------------- *)
CallRecord(op, u, l, c, ok, reason, action) ==
    [op |-> op, approver |-> u, level |-> l, comment |-> c,
     ok |-> ok, error |-> IF ok THEN NoError ELSE ErrorOf(reason),
     reason |-> reason, action |-> action]

\* The same operation with the same arguments.
SameCall(c1, c2) ==
    /\ c1.op = c2.op /\ c1.approver = c2.approver
    /\ c1.level = c2.level /\ c1.comment = c2.comment

\* Whether a call reaches get_or_create: every precondition holds.
Eligible(op, l, r, aps) ==
    /\ r.status = "PENDING"
    /\ l \in get_required_approval_levels(r.amount)
    /\ (op = "approve" => ~ has_rejection(aps))

\* One approve or reject call.  The checks made before the lock fail at once;
\* otherwise the call waits for the row lock (no open transaction), runs to
\* its end under it, and either fails (rollback, lock released) or leaves the
\* transaction to be committed.  Jobs go to the broker during the call.
Decide(op, u, l, c) ==
    /\ ncalls < MaxCalls
    /\ ncalls' = ncalls + 1
    /\ UNCHANGED <<aux, req, items, approvals, nextId, orders, workers, mut, nmut,
                   okBy, transitions, results>>
    /\ IF op = "reject" /\ comment_missing(c)
       THEN /\ last' = CallRecord(op, u, l, c, FALSE, "comment_required", "none")
            /\ repeated' = SameCall(last', last)
            /\ UNCHANGED <<tx, queue, eligBy, enqueued>>
       ELSE IF ~ validate_approval_permission(u, l)
       THEN /\ last' = CallRecord(op, u, l, c, FALSE, "permission", "none")
            /\ repeated' = SameCall(last', last)
            /\ UNCHANGED <<tx, queue, eligBy, enqueued>>
       ELSE /\ ~ tx.open
            /\ LET res == IF op = "approve"
                          THEN approve_request(u, l, c, req, approvals, nextId)
                          ELSE reject_request(u, l, c, req, approvals, nextId)
               IN /\ queue' = [queue EXCEPT ![0] = @ + res.enq]
                  /\ enqueued' = enqueued + res.enq
                  /\ eligBy' = IF Eligible(op, l, req, approvals)
                               THEN [eligBy EXCEPT ![l] = @ \cup {u}]
                               ELSE eligBy
                  /\ IF res.ok
                     THEN /\ tx' = [open |-> TRUE, req |-> res.req,
                                    approvals |-> res.approvals,
                                    nextId |-> res.nextId,
                                    call |-> CallRecord(op, u, l, c, TRUE,
                                                        "", res.action),
                                    transition |-> /\ req.status = "PENDING"
                                                   /\ res.req.status = "APPROVED"]
                          /\ UNCHANGED <<last, repeated>>
                     ELSE /\ tx' = tx
                          /\ last' = CallRecord(op, u, l, c, FALSE,
                                                res.reason, "none")
                          /\ repeated' = SameCall(last', last)

Approve == \E u \in Users, l \in Levels, c \in Comments :
              Decide("approve", u, l, c)

Reject == \E u \in Users, l \in Levels, c \in RejectComments :
              Decide("reject", u, l, c)

\* transaction.atomic exits: the writes become visible, the lock is released,
\* the call returns.
Commit ==
    /\ tx.open
    /\ req' = tx.req
    /\ approvals' = tx.approvals
    /\ nextId' = tx.nextId
    /\ last' = tx.call
    /\ repeated' = SameCall(tx.call, last)
    /\ okBy' = [okBy EXCEPT ![tx.call.level] = @ \cup {tx.call.approver}]
    /\ transitions' = transitions + (IF tx.transition THEN 1 ELSE 0)
    /\ tx' = NoTx
    /\ UNCHANGED <<aux, items, orders, queue, workers, mut, ncalls, nmut, eligBy,
                   enqueued, results>>

(* ------------------- item mutations and request update ---------------- *)
\* Each mutation runs in a thread of its own: the k-th one started in thread k.
Threads == 1..MaxMut

Finish(t) == mut' = [mut EXCEPT ![t] = MutIdle]

\* The mutation ends with an exception or an error response.
Refused(t) == mut' = [mut EXCEPT ![t] = [MutIdle EXCEPT !.kind = "refused"]]

\* RequestItem.save, first half: full_clean checks the parent request the
\* item holds (is_modifiable); the field validators pass for the inputs.
\* Two rows being inserted are two different rows.
ItemSaveClean ==
    \E i \in ItemIds, v \in ItemValues :
        LET t == nmut + 1
        IN /\ nmut < MaxMut
           /\ items[i] = NoItem =>
                 ~ \E o \in Threads : /\ mut[o].pc = "item_write"
                                      /\ mut[o].item = i
           /\ nmut' = nmut + 1
           /\ IF req.status = "PENDING"
              THEN mut' = [mut EXCEPT ![t] =
                              [MutIdle EXCEPT !.pc = "item_write",
                                              !.kind = "save", !.item = i,
                                              !.value = v, !.inst = req]]
              ELSE Refused(t)
           /\ UNCHANGED <<aux, req, items, approvals, nextId, orders, tx, queue,
                          workers, ncalls, last, repeated, okBy, eligBy,
                          transitions, enqueued, results>>

\* RequestItem.save: super().save() inserts or updates the item row.
ItemSaveWrite ==
    \E t \in Threads :
        /\ mut[t].pc = "item_write"
        /\ items' = [items EXCEPT ![mut[t].item] = mut[t].value]
        /\ mut' = [mut EXCEPT ![t].pc = "item_sum"]
        /\ UNCHANGED <<aux, req, approvals, nextId, orders, tx, queue, workers,
                       ncalls, nmut, last, repeated, okBy, eligBy, transitions,
                       enqueued, results>>

\* RequestItem._update_parent_amount: the aggregate query, compared with the
\* amount of the request instance the item holds.
ItemSaveSum ==
    \E t \in Threads :
        /\ mut[t].pc = "item_sum"
        /\ LET new_total == calculated_total(items)
           IN IF mut[t].inst.amount # new_total
              THEN mut' = [mut EXCEPT ![t].pc = "item_update",
                                      ![t].total = new_total]
              ELSE Finish(t)
        /\ UNCHANGED <<aux, req, items, approvals, nextId, orders, tx, queue,
                       workers, ncalls, nmut, last, repeated, okBy, eligBy,
                       transitions, enqueued, results>>

\* RequestItem._update_parent_amount: queryset.update(amount=new_total), which
\* waits for the row lock and runs no validation and no version bump.
ItemSaveUpdateAmount ==
    \E t \in Threads :
        /\ mut[t].pc = "item_update"
        /\ ~ tx.open
        /\ req' = [req EXCEPT !.amount = mut[t].total]
        /\ Finish(t)
        /\ UNCHANGED <<aux, items, approvals, nextId, orders, tx, queue, workers,
                       ncalls, nmut, last, repeated, okBy, eligBy, transitions,
                       enqueued, results>>

\* RequestItem.delete: super().delete() removes the row (no check of the
\* parent's status).
ItemDelete ==
    \E i \in ItemIds :
        LET t == nmut + 1
        IN /\ nmut < MaxMut
           /\ items[i] # NoItem
           /\ nmut' = nmut + 1
           /\ items' = [items EXCEPT ![i] = NoItem]
           /\ mut' = [mut EXCEPT ![t] =
                          [MutIdle EXCEPT !.pc = "get", !.kind = "delete",
                                          !.item = i]]
           /\ UNCHANGED <<aux, req, approvals, nextId, orders, tx, queue, workers,
                          ncalls, last, repeated, okBy, eligBy, transitions,
                          enqueued, results>>

\* RequestItem.delete: PurchaseRequest.objects.get(pk=request_id).
ItemDeleteGet ==
    \E t \in Threads :
        /\ mut[t].pc = "get"
        /\ mut' = [mut EXCEPT ![t].pc = "sum", ![t].inst = req]
        /\ UNCHANGED <<aux, req, items, approvals, nextId, orders, tx, queue,
                       workers, ncalls, nmut, last, repeated, okBy, eligBy,
                       transitions, enqueued, results>>

\* RequestItem.delete: request.amount = request.calculated_total.
ItemDeleteSum ==
    \E t \in Threads :
        /\ mut[t].pc = "sum"
        /\ mut' = [mut EXCEPT ![t].pc = "clean",
                              ![t].inst = [@ EXCEPT !.amount =
                                               calculated_total(items)]]
        /\ UNCHANGED <<aux, req, items, approvals, nextId, orders, tx, queue,
                       workers, ncalls, nmut, last, repeated, okBy, eligBy,
                       transitions, enqueued, results>>

\* The update view / PurchaseRequestService.update_purchase_request: load the
\* request, refuse unless it is modifiable, set the title.
UpdateGet ==
    \E ti \in Titles :
        LET t == nmut + 1
        IN /\ nmut < MaxMut
           /\ nmut' = nmut + 1
           /\ IF req.status = "PENDING"
              THEN mut' = [mut EXCEPT ![t] =
                              [MutIdle EXCEPT !.pc = "clean", !.kind = "update",
                                              !.inst = [req EXCEPT !.title = ti]]]
              ELSE Refused(t)
           /\ UNCHANGED <<aux, req, items, approvals, nextId, orders, tx, queue,
                          workers, ncalls, last, repeated, okBy, eligBy,
                          transitions, enqueued, results>>

\* PurchaseRequest.save, first half: full_clean against the stored row.
SaveClean ==
    \E t \in Threads :
        /\ mut[t].pc = "clean"
        /\ IF PurchaseRequest_full_clean(mut[t].inst, req)
           THEN mut' = [mut EXCEPT ![t].pc = "write"]
           ELSE Refused(t)
        /\ UNCHANGED <<aux, req, items, approvals, nextId, orders, tx, queue,
                       workers, ncalls, nmut, last, repeated, okBy, eligBy,
                       transitions, enqueued, results>>

\* PurchaseRequest.save, second half: version += 1 and the UPDATE of every
\* column from the instance, which waits for the row lock.
SaveWrite ==
    \E t \in Threads :
        /\ mut[t].pc = "write"
        /\ ~ tx.open
        /\ req' = [mut[t].inst EXCEPT !.version = @ + 1]
        /\ Finish(t)
        /\ UNCHANGED <<aux, items, approvals, nextId, orders, tx, queue, workers,
                       ncalls, nmut, last, repeated, okBy, eligBy, transitions,
                       enqueued, results>>

(* --------------------------- PurchaseOrder ---------------------------- *)
PurchaseOrderFields ==
    {"id", "po_number", "request", "vendor", "vendor_contact", "total",
     "status", "created_at", "metadata"}

is_valid_po_number_format(n) ==
    n.year \in 0..9999 /\ n.seq \in 0..999999 /\ n.suffix \in 0..999

\* PurchaseOrder.clean.  It reads self.currency, which is no field of the
\* model: the read raises AttributeError.
PurchaseOrder_clean(po) ==
    IF po.vendor = "" THEN "ValidationError"
    ELSE IF po.total <= 0 THEN "ValidationError"
    ELSE IF "currency" \notin PurchaseOrderFields THEN "AttributeError"
    ELSE IF ~ is_valid_po_number_format(po.po_number) THEN "ValidationError"
    ELSE "ok"

\* PurchaseOrder.save of a new row: full_clean (clean, then the unique
\* po_number and the one-to-one request), then the insert.
PurchaseOrder_save(po, ords) ==
    LET c == PurchaseOrder_clean(po)
    IN IF c # "ok" THEN [ok |-> FALSE, error |-> c, orders |-> ords]
       ELSE IF \E o \in ords : o.po_number = po.po_number \/ o.request = po.request
       THEN [ok |-> FALSE, error |-> "ValidationError", orders |-> ords]
       ELSE [ok |-> TRUE, error |-> "", orders |-> ords \cup {po}]

\* filter(po_number__startswith="PO-YYYY"): the stored orders of the year
existing_pos(ords) == {o \in ords : o.po_number.year = current_year}

\* _generate_unique_po_number: 1 without an order of the year; otherwise the
\* highest number in string order (PO-YYYYNNNNNNXXX) is read back with
\* po_number[8:14] and one is added.  The sequence NNNNNN sits at [7:13], so
\* the slice holds its last five digits followed by the first digit of the
\* suffix.
next_seq(ords) ==
    IF existing_pos(ords) = {} THEN 1
    ELSE LET o == CHOOSE o \in existing_pos(ords) : \A p \in existing_pos(ords) :
                      \/ p.po_number.seq < o.po_number.seq
                      \/ /\ p.po_number.seq = o.po_number.seq
                         /\ p.po_number.suffix <= o.po_number.suffix
         IN (o.po_number.seq % 100000) * 10 + (o.po_number.suffix \div 100) + 1

(* ----------------------- generate_purchase_order ---------------------- *)
Result(via, status, error, number) ==
    [via |-> via, status |-> status, error |-> error, po_number |-> number]

\* pr.purchase_order: the order of the request, if it has one
purchase_order(ords) == {o \in ords : o.request = 1}

\* A worker takes a job: the task loads the request as committed, returns at
\* once if it is not approved or already has an order.  The pool's processes
\* are interchangeable: the job goes to the first idle one.
TaskStart ==
    \E w \in Workers, k \in 0..MAX_RETRIES :
        /\ workers[w].pc = "idle"
        /\ \A v \in Workers : v < w => workers[v].pc # "idle"
        /\ queue[k] > 0
        /\ queue' = [queue EXCEPT ![k] = @ - 1]
        /\ IF ~ is_approved(req)
           THEN /\ results' = results \cup
                       {Result("task", "error", "not_approved", NoNumber)}
                /\ workers' = workers
           ELSE IF purchase_order(orders) # {}
           THEN /\ results' = results \cup
                       {Result("task", "already_exists", "",
                               (CHOOSE o \in purchase_order(orders) : TRUE).po_number)}
                /\ workers' = workers
           ELSE /\ results' = results
                /\ workers' = [workers EXCEPT ![w] =
                       [pc |-> "create", retries |-> k, amount |-> req.amount]]
        /\ vstat' = [vstat EXCEPT !.generations = @ + 1]
        /\ UNCHANGED <<receipt, vqueue, xqueue, gen, check, req, items, approvals,
                       nextId, orders, tx, mut, ncalls, nmut, last, repeated,
                       okBy, eligBy, transitions, enqueued>>

\* The task's transaction: draw a number, PurchaseOrder.objects.create.  Any
\* exception is retried while retries < max_retries, then reported.
TaskCreate ==
    \E w \in Workers, sfx \in Suffixes :
        /\ workers[w].pc = "create"
        /\ LET po == [po_number |-> [year |-> current_year,
                                    seq |-> next_seq(orders), suffix |-> sfx],
                      request |-> 1, vendor |-> "Unknown Vendor",
                      total |-> workers[w].amount, status |-> "DRAFT"]
               s == PurchaseOrder_save(po, orders)
           IN /\ orders' = s.orders
              /\ IF s.ok
                 THEN /\ results' = results \cup
                             {Result("task", "created", "", po.po_number)}
                      /\ queue' = queue
                 ELSE IF workers[w].retries < MAX_RETRIES
                 THEN /\ queue' = [queue EXCEPT ![workers[w].retries + 1] = @ + 1]
                      /\ results' = results
                 ELSE /\ queue' = queue
                      /\ results' = results \cup
                             {Result("task", "error", s.error, NoNumber)}
        /\ workers' = [workers EXCEPT ![w] = WorkerIdle]
        /\ UNCHANGED <<aux, req, items, approvals, nextId, tx, mut, ncalls, nmut,
                       last, repeated, okBy, eligBy, transitions, enqueued>>

\* PurchaseOrderService.generate_purchase_order, called directly.  Its
\* create() passes data=..., which is no field of the model: TypeError.
ServiceGenerate ==
    /\ IF ~ is_approved(req)
       THEN results' = results \cup
                {Result("service", "error", "ValidationError", NoNumber)}
       ELSE IF purchase_order(orders) # {}
       THEN results' = results \cup
                {Result("service", "returned", "",
                        (CHOOSE o \in purchase_order(orders) : TRUE).po_number)}
       ELSE IF "data" \notin PurchaseOrderFields
       THEN results' = results \cup
                {Result("service", "error", "TypeError", NoNumber)}
       ELSE results' = results
    /\ UNCHANGED <<aux, req, items, approvals, nextId, orders, tx, queue, workers,
                   mut, ncalls, nmut, last, repeated, okBy, eligBy, transitions,
                   enqueued>>

(* ------------------------ validation on given data ------------------- *)
\* _perform_receipt_validation applied to the data, with the review test of
\* validate_receipt_against_po.
Validate ==
    /\ check.pc = "input"
    /\ LET r == perform_receipt_validation(check.receipt_data, check.po_data)
       IN check' = [check EXCEPT !.pc = "scored", !.result = r,
                                 !.needs_review = needs_review(r)]
    /\ UNCHANGED <<req, items, approvals, nextId, orders, tx, queue, workers,
                   mut, ncalls, nmut, last, repeated, okBy, eligBy, transitions,
                   enqueued, results, receipt, vqueue, xqueue, vstat, gen>>

\* ReceiptValidator._compare_totals applied to the totals of the data; an
\* absent total reaches it as None.
ValidatorCompareTotals ==
    /\ check.pc = "scored"
    /\ LET opt(t) == IF t = 0 THEN NoTotal ELSE t
       IN check' = [check EXCEPT
                       !.pc = "done",
                       !.validator_total = ReceiptValidator_compare_totals(
                           opt(check.receipt_data.total),
                           opt(check.po_data.total))]
    /\ UNCHANGED <<req, items, approvals, nextId, orders, tx, queue, workers,
                   mut, ncalls, nmut, last, repeated, okBy, eligBy, transitions,
                   enqueued, results, receipt, vqueue, xqueue, vstat, gen>>

(* --------------------------- specifications --------------------------- *)
(* -------------------- _generate_unique_po_number ---------------------- *)
\* max_retries of the uniqueness loop
max_retries == 10

\* f"PO-{current_year}{next_seq:06d}{random_suffix}"
po_number_of(seq, sfx) == [year |-> current_year, seq |-> seq, suffix |-> sfx]

\* PurchaseOrder.objects.filter(po_number=po_number).exists()
po_number_exists(ords, n) == \E o \in ords : o.po_number = n

\* The highest number of the year is read, next_seq computed, and a first
\* suffix drawn.
GenStart ==
    \E sfx \in Suffixes :
        /\ gen.pc = "idle"
        /\ gen' = [pc |-> "loop", next_seq |-> next_seq(orders), suffix |-> sfx,
                   retry_count |-> 0, drawn |-> {sfx}, out |-> NoNumber]
        /\ UNCHANGED <<req, items, approvals, nextId, orders, tx, queue, workers,
                       mut, ncalls, nmut, last, repeated, okBy, eligBy,
                       transitions, enqueued, results, receipt, vqueue, xqueue,
                       vstat, check>>

\* One turn of "while exists() and retry_count < max_retries": a new suffix.
GenRedraw ==
    \E sfx \in Suffixes :
        /\ gen.pc = "loop"
        /\ po_number_exists(orders, po_number_of(gen.next_seq, gen.suffix))
        /\ gen.retry_count < max_retries
        /\ gen' = [gen EXCEPT !.suffix = sfx, !.retry_count = @ + 1,
                              !.drawn = @ \cup {sfx}]
        /\ UNCHANGED <<req, items, approvals, nextId, orders, tx, queue, workers,
                       mut, ncalls, nmut, last, repeated, okBy, eligBy,
                       transitions, enqueued, results, receipt, vqueue, xqueue,
                       vstat, check>>

\* The loop is left: POGenerationError if retry_count >= max_retries,
\* otherwise the number is returned.
GenExit ==
    /\ gen.pc = "loop"
    /\ ~ (/\ po_number_exists(orders, po_number_of(gen.next_seq, gen.suffix))
          /\ gen.retry_count < max_retries)
    /\ gen' = IF gen.retry_count >= max_retries
              THEN [gen EXCEPT !.pc = "failed"]
              ELSE [gen EXCEPT !.pc = "returned",
                               !.out = po_number_of(gen.next_seq, gen.suffix)]
    /\ UNCHANGED <<req, items, approvals, nextId, orders, tx, queue, workers,
                   mut, ncalls, nmut, last, repeated, okBy, eligBy,
                   transitions, enqueued, results, receipt, vqueue, xqueue,
                   vstat, check>>

(* -------------------- validate_receipt_against_po -------------------- *)
\* Document.is_processed
is_processed(doc) == doc.processing_status = "COMPLETED"

\* PurchaseOrder.get_items_from_data reads self.data, which is no field of
\* the model: the read raises AttributeError.
get_items_from_data(po) ==
    IF "data" \notin PurchaseOrderFields THEN "AttributeError" ELSE "ok"

\* _extract_po_data: the order's vendor name, items and total
extract_po_data(po) ==
    IF get_items_from_data(po) # "ok" THEN NoData
    ELSE [vendor |-> Vendor(po.vendor), items |-> <<>>, total |-> po.total,
          date |-> NoDate]

\* ReceiptValidator.validate_receipt and _store_validation_results.  The
\* receipt's metadata never holds 'extracted_data', so _extract_receipt_data
\* builds its data from _get_po_data (the order's vendor and items, its total
\* times 1.02); _get_po_data calls po.get_items_from_data(), and the method
\* catches the AttributeError and stores error_result: score 0.0, review
\* needed.  Weights: vendor 0.2, total 0.5, items 0.3; review below 0.8.
ReceiptValidator_validate_receipt(doc, po) ==
    IF get_items_from_data(po) # "ok"
    THEN Validation("view", "AttributeError", 0, TRUE)
    ELSE LET vendor_match == IF po.vendor = "" THEN 0 ELSE ONE
             total_match ==
                 ReceiptValidator_compare_totals(po.total * 102, po.total * 100)
             items_match == 0
             overall_score ==
                 (vendor_match * 20 + total_match * 50 + items_match * 30)
                     \div 100
         IN Validation("view", "", overall_score, overall_score < Pts(8, 10))

\* The view submit_receipt: the request must be approved and have its order;
\* the serializer creates the receipt document (Document.save queues
\* extract_document_metadata for a new document), then the receipt is
\* validated synchronously and the result stored in its metadata, which
\* also marks the document COMPLETED.  No notification is sent on this path.
SubmitReceipt ==
    /\ req.status = "APPROVED"
    /\ purchase_order(orders) # {}
    /\ receipt = NoReceipt
    /\ xqueue' = xqueue + 1
    /\ LET validation_result ==
               ReceiptValidator_validate_receipt(
                   UploadedReceipt, CHOOSE o \in purchase_order(orders) : TRUE)
       IN /\ receipt' = [UploadedReceipt EXCEPT
                            !.processing_status = "COMPLETED",
                            !.validation = validation_result]
          /\ vstat' = [vstat EXCEPT !.latest = validation_result]
    /\ UNCHANGED <<req, items, approvals, nextId, orders, tx, queue, workers,
                   mut, ncalls, nmut, last, repeated, okBy, eligBy,
                   transitions, enqueued, results, vqueue, gen, check>>

\* receipt_validation.validate_receipt_against_po run again on the stored
\* receipt and order (a missing one raises ValueError and changes nothing)
ValidatorRun ==
    /\ vstat.reruns < MaxJobs
    /\ receipt # NoReceipt
    /\ orders # {}
    /\ LET validation_result ==
               ReceiptValidator_validate_receipt(
                   receipt, CHOOSE o \in orders : TRUE)
       IN /\ receipt' = [receipt EXCEPT
                            !.processing_status = "COMPLETED",
                            !.validation = validation_result]
          /\ vstat' = [vstat EXCEPT !.reruns = @ + 1,
                                    !.latest = validation_result]
    /\ UNCHANGED <<req, items, approvals, nextId, orders, tx, queue, workers,
                   mut, ncalls, nmut, last, repeated, okBy, eligBy,
                   transitions, enqueued, results, vqueue, xqueue, gen, check>>

\* validate_receipt_against_po.delay(receipt_doc_id, po_id)
SubmitValidation ==
    /\ vstat.submitted < MaxJobs
    /\ vqueue' = [vqueue EXCEPT ![0] = @ + 1]
    /\ vstat' = [vstat EXCEPT !.submitted = @ + 1]
    /\ UNCHANGED <<req, items, approvals, nextId, orders, tx, queue, workers,
                   mut, ncalls, nmut, last, repeated, okBy, eligBy,
                   transitions, enqueued, results, receipt, xqueue, gen, check>>

\* One run of the job, delivered with request.retries = k: receipt and order
\* are read from storage.
\*  - One of them missing: {'error': ...} is returned at once.
\*  - Receipt not processed: extract_document_metadata is queued and
\*    "raise self.retry(countdown=30, ...)" runs inside the try block.  While
\*    k < max_retries, retry() sends the job again and raises Retry, a
\*    subclass of Exception: "except Exception" catches it and calls
\*    self.retry once more, which sends the job a second time.  At
\*    k = max_retries, retry() raises the given exception, the handler finds
\*    the budget spent and returns {'error': ...}.
\*  - Receipt processed: _extract_po_data calls po.get_items_from_data(); its
\*    AttributeError is retried once per run, then {'error': ...}.
ValidateRun ==
    \E k \in 0..MAX_RETRIES :
        /\ vqueue[k] > 0
        /\ LET taken == [vqueue EXCEPT ![k] = @ - 1]
               failed(e) == results \cup
                                {Result("reconciliation", "error", e, NoNumber)}
               spent == [vstat EXCEPT !.runs = @ + 1, !.exhausted = @ + 1]
               ran == [vstat EXCEPT !.runs = @ + 1]
           IN IF receipt = NoReceipt \/ orders = {}
              THEN /\ vqueue' = taken
                   /\ results' = failed("DoesNotExist")
                   /\ vstat' = ran
                   /\ UNCHANGED <<xqueue, receipt>>
              ELSE IF ~ is_processed(receipt)
              THEN /\ xqueue' = xqueue + 1
                   /\ receipt' = receipt
                   /\ IF k < MAX_RETRIES
                      THEN /\ vqueue' = [taken EXCEPT ![k + 1] = @ + 2]
                           /\ results' = results
                           /\ vstat' = ran
                      ELSE /\ vqueue' = taken
                           /\ results' = failed("Receipt processing in progress")
                           /\ vstat' = spent
              ELSE IF get_items_from_data(CHOOSE o \in orders : TRUE) # "ok"
              THEN /\ UNCHANGED <<xqueue, receipt>>
                   /\ IF k < MAX_RETRIES
                      THEN /\ vqueue' = [taken EXCEPT ![k + 1] = @ + 1]
                           /\ results' = results
                           /\ vstat' = ran
                      ELSE /\ vqueue' = taken
                           /\ results' = failed("AttributeError")
                           /\ vstat' = spent
              ELSE LET validation_result ==
                           perform_receipt_validation(
                               receipt.data,
                               extract_po_data(CHOOSE o \in orders : TRUE))
                       stored ==
                           Validation("job", "",
                                      validation_result.overall_score,
                                      needs_review(validation_result))
                   IN /\ vqueue' = taken
                      /\ receipt' = [receipt EXCEPT !.validation = stored]
                      /\ results' = results \cup
                             {Result("reconciliation", "completed", "",
                                     NoNumber)}
                      /\ vstat' = [ran EXCEPT
                                      !.notified =
                                          IF stored.needs_review THEN @ + 1
                                          ELSE @,
                                      !.latest = stored]
                      /\ xqueue' = xqueue
        /\ UNCHANGED <<req, items, approvals, nextId, orders, tx, queue, workers,
                       mut, ncalls, nmut, last, repeated, okBy, eligBy,
                       transitions, enqueued, gen, check>>

\* extract_document_metadata, one run: text and metadata are extracted (every
\* failure inside is caught) and mark_processing_completed stores the
\* metadata in place of the old one.
ExtractRun ==
    \E d \in ExtractedData :
        /\ xqueue > 0
        /\ xqueue' = xqueue - 1
        /\ receipt' = [processing_status |-> "COMPLETED", data |-> d,
                       validation |-> NoValidation]
        /\ UNCHANGED <<req, items, approvals, nextId, orders, tx, queue, workers,
                       mut, ncalls, nmut, last, repeated, okBy, eligBy,
                       transitions, enqueued, results, vqueue, vstat, gen,
                       check>>

Next ==
    \/ Approve \/ Reject \/ Commit
    \/ ItemSaveClean \/ ItemSaveWrite \/ ItemSaveSum \/ ItemSaveUpdateAmount
    \/ ItemDelete \/ ItemDeleteGet \/ ItemDeleteSum
    \/ UpdateGet \/ SaveClean \/ SaveWrite
    \/ TaskStart \/ TaskCreate \/ ServiceGenerate
    \/ GenStart \/ GenRedraw \/ GenExit
    \/ Validate \/ ValidatorCompareTotals
    \/ SubmitValidation \/ ValidateRun \/ ExtractRun
    \/ SubmitReceipt \/ ValidatorRun

Spec == Init /\ [][Next]_vars

\* approve and reject calls alone
NextCalls == Approve \/ Reject \/ Commit

SpecCalls == Init /\ [][NextCalls]_vars

\* approve and reject calls racing with item mutations and request updates,
\* of which at most MaxRacingMut are started
NextRaces ==
    \/ Approve \/ Reject \/ Commit
    \/ nmut < MaxRacingMut /\ ItemSaveClean
    \/ ItemSaveWrite \/ ItemSaveSum \/ ItemSaveUpdateAmount
    \/ nmut < MaxRacingMut /\ ItemDelete
    \/ ItemDeleteGet \/ ItemDeleteSum
    \/ nmut < MaxRacingMut /\ UpdateGet
    \/ SaveClean \/ SaveWrite

SpecRaces == Init /\ [][NextRaces]_vars

\* item mutations and request updates racing with each other
NextItems ==
    \/ ItemSaveClean \/ ItemSaveWrite \/ ItemSaveSum \/ ItemSaveUpdateAmount
    \/ ItemDelete \/ ItemDeleteGet \/ ItemDeleteSum
    \/ UpdateGet \/ SaveClean \/ SaveWrite

SpecItems == Init /\ [][NextItems]_vars

\* approve and reject calls with the order-generation workers
NextOrders ==
    \/ Approve \/ Reject \/ Commit
    \/ TaskStart \/ TaskCreate \/ ServiceGenerate

SpecOrders == Init /\ [][NextOrders]_vars

\* the receipt validation applied to every receipt and order of the inputs
OneItem == [i \in ItemIds |-> IF i = 1 THEN [quantity |-> 1, unit_price |-> 500]
                              ELSE NoItem]

InitValidation ==
    /\ InitWorkflow(OneItem, {})
    /\ receipt = NoReceipt
    /\ vqueue = [k \in 0..MAX_RETRIES |-> 0]
    /\ xqueue = 0
    /\ vstat = NoStat
    /\ gen = NoGen
    /\ check \in [pc : {"input"}, receipt_data : ReceiptData,
                   po_data : OrderData, result : {NoResult},
                   needs_review : {FALSE}, validator_total : {NoTotal}]

NextValidation == Validate \/ ValidatorCompareTotals

SpecValidation == InitValidation /\ [][NextValidation]_vars

\* the order-number generator run against every stored set of orders
InitNumbers ==
    /\ \E ords \in StoredOrderSets : InitWorkflow(OneItem, ords)
    /\ InitAux

NextNumbers == GenStart \/ GenRedraw \/ GenExit

SpecNumbers == InitNumbers /\ [][NextNumbers]_vars

\* the jobs: the request as approve(request, A, level 1) leaves it once
\* committed, with its two generation jobs queued; no order or one order of
\* another request in store; no receipt, an uploaded one whose extraction is
\* queued, or a processed one
InitApproved(ords) ==
    /\ items = OneItem
    /\ req = [status |-> "APPROVED", amount |-> calculated_total(OneItem),
              version |-> 3, last_approved_by |-> "A", title |-> "t0"]
    /\ approvals = {[id |-> 1, approver |-> "A", level |-> 1,
                     decision |-> "APPROVED", comment |-> "x"]}
    /\ nextId = 2
    /\ orders = ords
    /\ tx = NoTx
    /\ queue = [k \in 0..MAX_RETRIES |-> IF k = 0 THEN 2 ELSE 0]
    /\ workers = [w \in Workers |-> WorkerIdle]
    /\ mut = [t \in 1..MaxMut |-> MutIdle]
    /\ ncalls = 1
    /\ nmut = 0
    /\ last = [op |-> "approve", approver |-> "A", level |-> 1,
               comment |-> "x", ok |-> TRUE, error |-> NoError,
               reason |-> "", action |-> "created"]
    /\ repeated = FALSE
    /\ okBy = [l \in Levels |-> IF l = 1 THEN {"A"} ELSE {}]
    /\ eligBy = [l \in Levels |-> IF l = 1 THEN {"A"} ELSE {}]
    /\ transitions = 1
    /\ enqueued = 2
    /\ results = {}

InitJobs ==
    /\ \E ords \in {{}, {StoredOrder([year |-> current_year, seq |-> 1,
                                       suffix |-> 100])}} :
           InitApproved(ords)
    /\ receipt \in {NoReceipt, UploadedReceipt} \cup ProcessedReceipts
    /\ xqueue = IF receipt = UploadedReceipt THEN 1 ELSE 0
    /\ vqueue = [k \in 0..MAX_RETRIES |-> 0]
    /\ vstat = NoStat
    /\ gen = NoGen
    /\ check = NoCheck

NextJobs ==
    \/ TaskStart \/ TaskCreate
    \/ SubmitValidation \/ ValidateRun \/ ExtractRun

SpecJobs == InitJobs /\ [][NextJobs]_vars

\* The reconciliation of receipts: the approved request has its order in
\* store (no order being created by the generation job, it was loaded into the
\* table), a receipt document may have been uploaded and processed already.
\* Receipts are submitted through the view, validated again, reconciled by
\* the job, and their metadata extracted.
OrderOfRequest ==
    [StoredOrder([year |-> current_year, seq |-> 1, suffix |-> 100])
         EXCEPT !.request = 1]

InitReceipts ==
    /\ InitApproved({OrderOfRequest})
    /\ receipt \in {NoReceipt, UploadedReceipt} \cup ProcessedReceipts
    /\ xqueue = IF receipt = UploadedReceipt THEN 1 ELSE 0
    /\ vqueue = [k \in 0..MAX_RETRIES |-> 0]
    /\ vstat = NoStat
    /\ gen = NoGen
    /\ check = NoCheck

NextReceipts ==
    \/ SubmitReceipt \/ ValidatorRun
    \/ SubmitValidation \/ ValidateRun \/ ExtractRun

SpecReceipts == InitReceipts /\ [][NextReceipts]_vars

\* the same, with what the deployment guarantees to happen: an open
\* transaction ends, and the running workers take the queued jobs (retries
\* included, after their countdown) and finish the runs they started
FairOrders ==
    /\ SpecOrders
    /\ WF_vars(Commit)
    /\ WF_vars(TaskStart)
    /\ WF_vars(TaskCreate)

(* ------------------------------ claims -------------------------------- *)
HasApproved(l) == \E a \in approvals : a.level = l /\ a.decision = "APPROVED"

\* C1: in every reachable state an APPROVED request has an APPROVED decision
\* at every level required for its current amount and no REJECTED decision,
\* whatever the interleaving of approve, reject and item mutations.
C1_ApprovedHasAllLevels ==
    req.status = "APPROVED" =>
        /\ \A l \in get_required_approval_levels(req.amount) : HasApproved(l)
        /\ ~ has_rejection(approvals)

\* C2: the status of a request changes only from PENDING to APPROVED or from
\* PENDING to REJECTED; once APPROVED or REJECTED it never changes again.
C2_StatusOnlyLeavesPending ==
    [][req'.status # req.status =>
          req.status = "PENDING" /\ req'.status \in {"APPROVED", "REJECTED"}]_vars

\* C4: no state is reachable in which the request has a REJECTED decision
\* while its status is PENDING or APPROVED.
C4_RejectionForcesRejected ==
    has_rejection(approvals) => req.status = "REJECTED"

\* A call returns in this step: it fails at once (no transaction of its own
\* is left open) or its transaction commits.  last' is then the call that
\* returned.
Returned ==
    \/ ncalls' # ncalls /\ tx' = tx
    \/ tx.open /\ ~ tx'.open

RecordsAt(l) == {a \in approvals : a.level = l}

\* C3: when approve at level 1 and approve at level 2 are both issued on a
\* PENDING request whose amount exceeds the threshold, then in every order of
\* their steps the request ends APPROVED, exactly one call has performed the
\* transition, and no committed state has both levels APPROVED while the
\* request is PENDING.
C3_BothLevelsThenApproved ==
    /\ transitions <= 1
    /\ (req.amount > LEVEL2_THRESHOLD /\ HasApproved(1) /\ HasApproved(2)) =>
           /\ req.status = "APPROVED"
           /\ transitions = 1

C3_Witness ==
    /\ req.amount > LEVEL2_THRESHOLD
    /\ ncalls = 2 /\ ~ tx.open
    /\ last.op = "approve" /\ last.ok
    /\ HasApproved(1) /\ HasApproved(2)
    /\ req.status = "APPROVED" /\ transitions = 1

\* C5: a request has at most one decision record per level; of the calls by
\* different approvers that reach the decision step for the same level exactly
\* one succeeds, and the records of the level are those of the approver who
\* succeeded: a refused call creates none.
C5_OneRecordPerLevel ==
    \A l \in Levels :
        /\ Cardinality(RecordsAt(l)) <= 1
        /\ Cardinality(okBy[l]) <= 1
        /\ {a.approver : a \in RecordsAt(l)} = okBy[l]
        /\ Cardinality(eligBy[l]) >= 2 => Cardinality(okBy[l]) = 1

C5_Witness ==
    \E l \in Levels :
        /\ Cardinality(eligBy[l]) = 2
        /\ Cardinality(okBy[l]) = 1
        /\ Cardinality(RecordsAt(l)) = 1
        /\ ~ last.ok /\ last.level = l /\ last.reason = "other_approver"
        /\ last.approver \notin okBy[l]

\* C6: an approve call that returns right after a successful approve call by
\* the same approver for the same level with the same comment leaves exactly
\* one decision record for the level and changes neither the status, nor the
\* pending levels, nor the set of decision records.
C6_RepeatedApproveIsIdempotent ==
    [][(/\ Returned
        /\ last.op = "approve" /\ last.ok
        /\ last'.op = "approve"
        /\ last'.approver = last.approver
        /\ last'.level = last.level
        /\ last'.comment = last.comment)
       => /\ Cardinality({a \in approvals' : a.level = last'.level}) = 1
          /\ req'.status = req.status
          /\ approvals' = approvals
          /\ get_pending_approval_levels(req'.amount, approvals')
                = get_pending_approval_levels(req.amount, approvals)]_vars

C6_Witness ==
    /\ ncalls = 2 /\ repeated
    /\ last.op = "approve" /\ last.ok /\ last.action = "updated"
    /\ last.approver = "A" /\ last.level = 1
    /\ Cardinality(RecordsAt(1)) = 1
    /\ ~ tx.open

\* The approve call returning in this step was made for a level that a
\* different approver has already decided.
ApproveAfterOtherApprover ==
    /\ Returned
    /\ last'.op = "approve"
    /\ \E a \in approvals : a.level = last'.level /\ a.approver # last'.approver

\* C7 as stated: an approve call for a level already decided by a different
\* approver fails with a Conflict error, and the level's record count, the
\* record and the request status are unchanged.
C7_AlwaysConflict ==
    [][ApproveAfterOtherApprover
       => /\ ~ last'.ok
          /\ last'.error.view = "Conflict"
          /\ approvals' = approvals
          /\ Cardinality({a \in approvals' : a.level = last'.level}) = 1
          /\ req'.status = req.status]_vars

\* C7, amended: such a call always fails and changes neither the records nor
\* the request; it is reported as a conflict (409 by the view, a
\* ValidationError by ApprovalService) exactly when the caller may decide the
\* level, the request is still PENDING, the level is required for its amount
\* and no rejection is recorded; otherwise the earlier check's error is
\* reported.
C7_ConflictOnlyWhenReached ==
    [][ApproveAfterOtherApprover
       => /\ ~ last'.ok
          /\ approvals' = approvals
          /\ Cardinality({a \in approvals' : a.level = last'.level}) = 1
          /\ req' = req
          /\ last'.error.view = "Conflict"
               <=> /\ validate_approval_permission(last'.approver, last'.level)
                   /\ Eligible("approve", last'.level, req, approvals)
          /\ last'.error.view = "Conflict"
               => last'.error.service = "ValidationError"]_vars

C7_Witness ==
    /\ ~ last.ok /\ last.op = "approve" /\ last.reason = "other_approver"
    /\ last.error.view = "Conflict"
    /\ req.status = "PENDING"
    /\ \E a \in RecordsAt(last.level) : a.approver # last.approver
    /\ Cardinality(RecordsAt(last.level)) = 1

\* C8: every request that reaches APPROVED eventually has a purchase order,
\* the workers running and the broker delivering each job at least once.
C8_ApprovedGetsOrder ==
    (req.status = "APPROVED") ~> (orders # {})

\* C9: whatever the number and the overlap of the deliveries of the job, the
\* request has at most one purchase order and every delivery that completes
\* reports that order's number.
C9_DeliveriesReportTheOrder ==
    /\ Cardinality(orders) <= 1
    /\ \A r \in results :
          r.via = "task" =>
              /\ r.status \in {"created", "already_exists"}
              /\ \E o \in orders : o.po_number = r.po_number

\* C10: the calls of generate_purchase_order made on the APPROVED request
\* all return the number of the one stored order.
C10_SameOrderReturned ==
    \A r \in results :
        (r.via = "service" /\ r.error # "ValidationError") =>
            /\ r.status = "returned"
            /\ \E o \in orders : o.po_number = r.po_number
            /\ \A q \in results :
                  (q.via = "service" /\ q.error # "ValidationError") =>
                      q.po_number = r.po_number

\* A worker takes a job from the broker in this step.
JobTaken == \E k \in 0..MAX_RETRIES : queue'[k] < queue[k]

\* A direct call of PurchaseOrderService.generate_purchase_order returns in
\* this step.
ServiceRuns == \E r \in results' \ results : r.via = "service"

\* C11: order generation run for a request that is not APPROVED ends at once
\* with an error (the task's "not approved" result, the service's
\* ValidationError) and creates no order.
C11_NotApprovedNoOrder ==
    [][(~ (req.status = "APPROVED") /\ (JobTaken \/ ServiceRuns))
       => /\ orders' = orders
          /\ workers' = workers
          /\ JobTaken =>
                Result("task", "error", "not_approved", NoNumber) \in results'
          /\ \A r \in results' \ results :
                /\ r.status = "error"
                /\ r.via = "service" => r.error = "ValidationError"]_vars

C11_Witness ==
    /\ req.status = "PENDING"
    /\ Result("task", "error", "not_approved", NoNumber) \in results
    /\ Result("service", "error", "ValidationError", NoNumber) \in results
    /\ orders = {}

\* C12: every order generation made for an APPROVED request succeeds, and no
\* two orders share a po_number.
C12_GenerationsSucceedDistinct ==
    /\ \A o1, o2 \in orders : o1.po_number = o2.po_number => o1 = o2
    /\ \A r \in results :
          r.status = "error" => r.error \in {"not_approved", "ValidationError"}

\* No mutation is running and none was refused.
MutationsSucceeded ==
    \A t \in Threads : mut[t].pc = "idle" /\ mut[t].kind # "refused"

\* C13: once the item creations, updates and deletions made on a request,
\* concurrent ones included, have all succeeded, the request's amount equals
\* the sum of quantity * unit_price over its items.
C13_AmountIsItemsTotal ==
    MutationsSucceeded => req.amount = calculated_total(items)

\* C14: once the request is APPROVED or REJECTED, its title, its amount and
\* its items never change.
C14_TerminalIsImmutable ==
    [][req.status \in {"APPROVED", "REJECTED"}
       => /\ items' = items
          /\ req'.amount = req.amount
          /\ req'.title = req.title]_vars

\* C15: is_fully_approved holds exactly when every level required for the
\* amount has an APPROVED decision and no level has a REJECTED one.
C15_FullyApprovedIff ==
    is_fully_approved(req.amount, approvals)
        <=> /\ \A l \in get_required_approval_levels(req.amount) : HasApproved(l)
            /\ ~ has_rejection(approvals)

\* C16: on a request whose amount exceeds the threshold, a successful approve
\* at one of the levels 1 and 2 leaves the request PENDING with exactly the
\* other level pending while that level is undecided, and leaves it APPROVED
\* with no level pending when the other level is already approved, whichever
\* level comes first.
C16_TwoLevelWorkflow ==
    [][(/\ Returned
        /\ last'.op = "approve" /\ last'.ok
        /\ req.amount > LEVEL2_THRESHOLD)
       => LET other == 3 - last'.level
              pending == get_pending_approval_levels(req'.amount, approvals')
          IN /\ \E a \in approvals' :
                   a.level = last'.level /\ a.decision = "APPROVED"
             /\ IF \E a \in approvals' : a.level = other
                THEN req'.status = "APPROVED" /\ pending = {}
                ELSE req'.status = "PENDING" /\ pending = {other}]_vars

C16_Witness ==
    /\ req.amount > LEVEL2_THRESHOLD
    /\ ncalls = 2 /\ HasApproved(2)
    /\ last.op = "approve" /\ last.ok /\ last.level = 1
    /\ req.status = "APPROVED"
    /\ get_pending_approval_levels(req.amount, approvals) = {}

\* C17: the levels required for an amount are exactly {1} up to and
\* including 1000 and exactly {1, 2} above 1000, and the calls are refused
\* or accepted accordingly: level 2 is refused as not required only up to
\* 1000 and decided only above it.
C17_RequiredLevels ==
    /\ get_required_approval_levels(req.amount)
          = IF req.amount <= 1000 THEN {1} ELSE {1, 2}
    /\ last.reason = "level_not_required" =>
          last.level = 2 /\ req.amount <= 1000
    /\ (last.ok /\ last.level = 2) => req.amount > 1000

C17_Witness ==
    /\ req.amount = 1000
    /\ get_required_approval_levels(req.amount) = {1}
    /\ last.level = 2 /\ ~ last.ok /\ last.reason = "level_not_required"

\* The actor does not hold the capability of the level.
LacksCapability(u, l) ==
    \/ l = 1 /\ ~ can_approve_level_1(u)
    \/ l = 2 /\ ~ can_approve_level_2(u)

\* C18 as stated: an approve or reject call at a level whose capability the
\* actor does not hold fails with PermissionDenied and changes neither the
\* request nor the decision records.
C18_AlwaysPermissionDenied ==
    [][(Returned /\ LacksCapability(last'.approver, last'.level))
       => /\ ~ last'.ok
          /\ last'.error.service = "PermissionDenied"
          /\ last'.error.view = "PermissionDenied"
          /\ req' = req
          /\ approvals' = approvals]_vars

\* C18, amended: such a call always fails and changes neither the request
\* nor the decision records, whatever capability the actor holds for the
\* other level; it fails with PermissionDenied, except that a reject with an
\* empty comment fails with ValidationError, the comment being checked before
\* the capability.
C18_PermissionDeniedAfterComment ==
    [][(Returned /\ LacksCapability(last'.approver, last'.level))
       => /\ ~ last'.ok
          /\ IF last'.op = "reject" /\ last'.comment \in {"", " "}
             THEN /\ last'.error.service = "ValidationError"
                  /\ last'.error.view = "BadRequest"
             ELSE /\ last'.error.service = "PermissionDenied"
                  /\ last'.error.view = "PermissionDenied"
          /\ req' = req
          /\ approvals' = approvals]_vars

C18_Witness ==
    /\ ~ last.ok /\ last.approver = "A" /\ last.level = 2
    /\ can_approve_level_1("A") /\ ~ can_approve_level_2("A")
    /\ last.error.service = "PermissionDenied"
    /\ approvals = {} /\ req.status = "PENDING"
    /\ req.amount > LEVEL2_THRESHOLD

\* C19 (as stated): an approve or reject call on a request that is not
\* PENDING, or for a level the request's amount does not require, fails with
\* ValidationError and leaves the request's status and version and the
\* decision records unchanged, whoever calls.
C19_AlwaysValidationError ==
    [][(Returned /\ (\/ req.status # "PENDING"
                     \/ last'.level = 2 /\ req.amount <= LEVEL2_THRESHOLD))
       => /\ ~ last'.ok
          /\ last'.error.service = "ValidationError"
          /\ req'.status = req.status
          /\ req'.version = req.version
          /\ approvals' = approvals]_vars

\* C19 (amended): such a call always fails and leaves the request's status
\* and version and the decision records unchanged.  It fails with
\* ValidationError when the caller holds the capability for the level, or
\* when it is a reject with an empty or whitespace-only comment; a caller
\* without the capability is otherwise refused with PermissionDenied before
\* the request is looked at.
C19_ValidationErrorWhenPermitted ==
    [][(Returned /\ (\/ req.status # "PENDING"
                     \/ last'.level = 2 /\ req.amount <= LEVEL2_THRESHOLD))
       => /\ ~ last'.ok
          /\ IF \/ ~ LacksCapability(last'.approver, last'.level)
                \/ last'.op = "reject" /\ last'.comment \in {"", " "}
             THEN last'.error.service = "ValidationError"
             ELSE last'.error.service = "PermissionDenied"
          /\ req'.status = req.status
          /\ req'.version = req.version
          /\ approvals' = approvals]_vars

\* An approver holding the level-1 capability approves or rejects, with a
\* comment, a request that an earlier call has already settled, and is
\* refused because the request is no longer PENDING.
C19_Witness ==
    /\ ncalls = 2 /\ ~ tx.open
    /\ req.status \in {"APPROVED", "REJECTED"}
    /\ ~ last.ok /\ last.reason = "not_pending"
    /\ ~ LacksCapability(last.approver, last.level)
    /\ last.comment = "x"
    /\ last.error.service = "ValidationError"

\* C20: a reject call with an empty or whitespace-only comment fails with
\* ValidationError, creates or changes no decision record and leaves the
\* request as it is, whoever calls and whatever the state of the request.
C20_RejectNeedsComment ==
    [][(Returned /\ last'.op = "reject" /\ last'.comment \in {"", " "})
       => /\ ~ last'.ok
          /\ last'.error.service = "ValidationError"
          /\ last'.action = "none"
          /\ approvals' = approvals
          /\ nextId' = nextId
          /\ req' = req]_vars

\* A level-1 approver rejects a PENDING request with a whitespace-only
\* comment: the call would otherwise have been carried out.
C20_Witness ==
    /\ last.op = "reject" /\ last.comment = " "
    /\ last.approver = "A" /\ last.level = 1
    /\ ~ last.ok /\ last.reason = "comment_required"
    /\ last.error.service = "ValidationError"
    /\ req.status = "PENDING" /\ approvals = {}

Scored == check.pc \in {"scored", "done"}

\* The receipt names the order's vendor, lists the order's items line by
\* line, and carries the order's total.
SameLine(r, o) ==
    r.description = o.name /\ r.quantity = o.quantity
    /\ r.unit_price = o.unit_price

IdenticalData ==
    LET r == check.receipt_data
        o == check.po_data
    IN /\ r.vendor.name = o.vendor.name /\ o.vendor.name # <<>>
       /\ r.total = o.total /\ o.total > 0
       /\ Len(r.items) = Len(o.items) /\ o.items # <<>>
       /\ \A i \in 1..Len(o.items) : SameLine(r.items[i], o.items[i])

\* C28: validating a receipt whose vendor name, items and total are those of
\* the order yields an overall score of at least 0.95 and no manual review.
C28_IdenticalScoresHigh ==
    (Scored /\ IdenticalData)
    => /\ check.result.overall_score >= Pts(95, 100)
       /\ ~ check.needs_review

\* The receipt names another vendor, carries three times the order's total,
\* and none of its lines describes an item of the order.
Normal(n) == str_strip(str_lower(n))

MismatchedData ==
    LET r == check.receipt_data
        o == check.po_data
    IN /\ Normal(r.vendor.name) # Normal(o.vendor.name)
       /\ o.total > 0 /\ r.total = 3 * o.total
       /\ \A i \in 1..Len(r.items), j \in 1..Len(o.items) :
              Normal(r.items[i].description) # Normal(o.items[j].name)

MajorMismatchFlags ==
    {"VENDOR_MAJOR_MISMATCH", "AMOUNT_MAJOR_DISCREPANCY", "ITEMS_MAJOR_MISMATCH"}

ClaimedBand(difference, larger) ==
    IF difference = 0 THEN ONE
    ELSE IF difference * 100 <= 1 * larger THEN Pts(95, 100)
    ELSE IF difference * 100 <= 2 * larger THEN Pts(90, 100)
    ELSE IF difference * 100 <= 5 * larger THEN Pts(80, 100)
    ELSE IF difference * 100 <= 10 * larger THEN Pts(60, 100)
    ELSE IF difference * 100 <= 20 * larger THEN Pts(30, 100)
    ELSE 0

\* C30: the total score is 1.0 for equal totals, 0.95 up to 1% of relative
\* difference, 0.90 up to 2%, 0.80 up to 5%, 0.60 up to 10%, 0.30 up to 20%,
\* 0.0 above, and 0.0 when a total is absent.
C30_TotalBands ==
    LET r == check.receipt_data.total
        o == check.po_data.total
    IN /\ Scored
          => check.result.total_match =
                 IF r = 0 \/ o = 0 THEN 0
                 ELSE ClaimedBand(Abs(r - o), Max(r, o))
       /\ check.pc = "done"
          => check.validator_total =
                 IF r = 0 \/ o = 0 THEN 0 ELSE ClaimedBand(Abs(r - o), o)

\* The generator has computed the sequence field of its number.
Generated == gen.pc # "idle"

\* C23: every order number the generator returns has the format
\* PO-YYYYNNNNNNXXX, a year of four digits, a sequence of six and a suffix of
\* three, whatever orders are in store.
C23_NumberFormat ==
    gen.pc = "returned" => is_valid_po_number_format(gen.out)

\* the highest sequence field among the stored orders of the year
highest_seq(ords) ==
    CHOOSE s \in {o.po_number.seq : o \in existing_pos(ords)} :
        \A o \in existing_pos(ords) : o.po_number.seq <= s

\* C24: the sequence field of a generated number is 1 when no order of the
\* year is in store, and otherwise the highest stored sequence plus one, so
\* that it exceeds every sequence of the year already in store.
C24_SequenceNext ==
    Generated
    => IF existing_pos(orders) = {} THEN gen.next_seq = 1
       ELSE /\ gen.next_seq = highest_seq(orders) + 1
            /\ \A o \in existing_pos(orders) : o.po_number.seq < gen.next_seq

\* the suffixes drawn so far that give a number no stored order has
unused_drawn ==
    {s \in gen.drawn : ~ po_number_exists(orders, po_number_of(gen.next_seq, s))}

\* C25: the suffix is redrawn at most 10 times; the generator returns a
\* number no stored order has whenever one of the drawn suffixes is unused,
\* and raises its fatal error only if every drawn suffix collided.
C25_RedrawBounded ==
    /\ gen.retry_count <= max_retries
    /\ gen.pc = "returned" => ~ po_number_exists(orders, gen.out)
    /\ gen.pc = "failed" => unused_drawn = {}

\* C27: every successful mutation of the request (a status transition, a
\* title update, a change of amount caused by an item creation, edit or
\* deletion) strictly increases the request's version, which never decreases.
C27_VersionIncreases ==
    [][req' # req => req'.version > req.version]_vars

\* C26: the order generated for an approved request carries as its total the
\* request's amount read by the generation, and no later step (request or
\* item change, repeated generation, reconciliation) changes or removes a
\* stored order.
C26_TotalIsAmount ==
    [][/\ \A w \in Workers :
            (workers[w].pc = "create" /\ workers'[w].pc = "idle")
            => \E o \in orders' : o.request = 1 /\ o.total = workers[w].amount
       /\ orders \subseteq orders']_vars

\* What the database holds of the request, its items and decisions, the
\* orders and the receipt.
Storage == <<req, items, approvals, orders, receipt>>

\* A generation run fails at request.retries = max_retries.
ExhaustedGeneration ==
    \E w \in Workers :
        /\ workers[w].pc = "create" /\ workers[w].retries = MAX_RETRIES
        /\ workers'[w].pc = "idle"
        /\ purchase_order(orders') = {}

\* A reconciliation run fails at request.retries = max_retries.
ExhaustedReconciliation == vstat'.exhausted > vstat.exhausted

\* C21: a generation or reconciliation job that exceeds its retry budget ends
\* leaving a failure record in storage for the request or the receipt.
C21_FailureRecorded ==
    [][(ExhaustedGeneration \/ ExhaustedReconciliation)
       => Storage' # Storage]_vars

\* C22: a generation or reconciliation job runs at most 1 + max_retries
\* times, whatever becomes of the receipt: the runs of the submitted jobs
\* never exceed that number per job.
C22_AttemptsBounded ==
    /\ vstat.generations <= (1 + MAX_RETRIES) * enqueued
    /\ vstat.runs <= (1 + MAX_RETRIES) * vstat.submitted

FraudIndicators ==
    {"SUSPICIOUS_AMOUNT_INCREASE", "POTENTIAL_VENDOR_FRAUD",
     "SUSPICIOUS_ROUND_AMOUNT", "MISSING_VENDOR_INFO",
     "MISSING_TRANSACTION_DATE"}

ReconciliationEnded ==
    vstat.submitted > 0 /\ \A k \in 0..MAX_RETRIES : vqueue[k] = 0

\* C32: a reconciliation run sets needsManualReview exactly when the overall
\* score is below 0.8, and a review notification is emitted if and only if
\* needsManualReview is true.
C32_ReviewNotified ==
    vstat.latest # NoValidation
    => /\ vstat.latest.needs_review <=> vstat.latest.score < Pts(8, 10)
       /\ vstat.latest.needs_review <=> vstat.notified > 0

\* C33: however often the reconciliation of a receipt against its order is
\* run, the receipt carries one validation result, that of the most recent
\* run, and neither the order nor the request changes.
C33_LatestResultStored ==
    [][(\/ ValidateRun /\ is_processed(receipt) /\ ReconciliationEnded'
        \/ ValidatorRun
        \/ SubmitReceipt)
       => /\ receipt'.validation # NoValidation
          /\ receipt'.validation = vstat'.latest
          /\ orders' = orders /\ req' = req]_vars

C34_AbsentFieldsDegrade ==
    Scored
    => /\ check.result.confidence_level \in {"HIGH", "MEDIUM", "LOW"}
       /\ check.receipt_data.vendor.name = <<>>
          => check.result.vendor_match = 0
       /\ check.receipt_data.total = 0 => check.result.total_match = 0
       /\ ~ check.receipt_data.date.given
          => check.result.date_match = Pts(5, 10)

\* A receipt without vendor name, items, total and date has been scored.
C34_Witness ==
    /\ Scored
    /\ check.receipt_data.vendor.name = <<>>
    /\ check.receipt_data.items = <<>>
    /\ check.receipt_data.total = 0
    /\ ~ check.receipt_data.date.given
    /\ check.result.vendor_match = 0
    /\ check.result.date_match = Pts(5, 10)

\* How often x occurs in the list sq.
Count(sq, x) == Cardinality({i \in 1..Len(sq) : sq[i] = x})

\* The pairings of the item comparison are one-to-one between the lists rs
\* and ps, and each reaches the acceptance threshold 0.6.
OneToOne(matches, rs, ps) ==
    \A i \in 1..Len(matches) :
        /\ Count([k \in 1..Len(matches) |-> matches[k].po_item],
                 matches[i].po_item) <= Count(ps, matches[i].po_item)
        /\ Count([k \in 1..Len(matches) |-> matches[k].receipt_item],
                 matches[i].receipt_item) <= Count(rs, matches[i].receipt_item)
        /\ matches[i].similarity >= Pts(6, 10)
        /\ matches[i].similarity =
               calculate_string_similarity(matches[i].receipt_item.description,
                                           matches[i].po_item.description)

\* The items of a list that have a description, or a name in its place.
Described(its) ==
    SelectSeq(its, LAMBDA it : it.description # <<>> \/ it.name # <<>>)

C40_ScoresInUnitInterval ==
    Scored
    => \A score \in {check.result.vendor_match, check.result.total_match,
                     check.result.items_match, check.result.date_match,
                     check.result.overall_score} :
           0 <= score /\ score <= ONE

\* C37: every transition from PENDING to APPROVED hands exactly one
\* order-generation job to the broker, and no job is handed over by an
\* approve that leaves the request PENDING, by a failed approve or by a
\* reject: once the calls have returned, the jobs number the transitions.
C37_OneJobPerTransition ==
    ~ tx.open => enqueued = transitions

\* C38: a PENDING request has a level required for its current amount that
\* carries no APPROVED decision; in particular, after level 1 of a request
\* above 1000 was approved and an item edit brought the amount to 1000 or
\* less, the request is not left PENDING without a pending level.
C38_PendingHasPendingLevel ==
    req.status = "PENDING"
    => \E l \in get_required_approval_levels(req.amount) : ~ HasApproved(l)

====
